---- MODULE Spec2Model ----
(***************************************************************************)
(* Browser client of a local LLM backend (chat page with a small RAG       *)
(* knowledge base).  The page script is a set of event handlers and async  *)
(* functions running on one event loop: every action below is one handler  *)
(* run, or the part of an async function between two awaits.               *)
(*                                                                         *)
(* A JavaScript string is a sequence of string pieces (concatenation is    *)
(* \o); the strings that are parsed (the top-K input, typed text) are      *)
(* sequences of single characters.  The page's Swedish texts are written   *)
(* without diacritics.                                                     *)
(***************************************************************************)
EXTENDS Integers, Sequences, FiniteSets, Bags, TLC

VARIABLES
    store,        \* localStorage: key -> string or Null
    storageOk,    \* whether window.localStorage is usable (else it throws)
    kb,           \* server: the knowledge base, document ids in server order
    nextId,       \* server: the id the next created document gets
    ragNet,       \* /api/rag/docs requests in flight: a bag, any may be answered next
    ragList,      \* #ragList: the rendered document ids
    toggle,       \* #ragToggle: [checked, disabled]
    ragStatus,    \* #ragStatus: [text, type]
    sel,          \* #model, the select element: [options, value]
    modelNet,     \* /api/models requests in flight: how many
    history,      \* #history: the messages shown, each [role, text]
    sendBtn,      \* #send: [disabled, label]
    ragResults,   \* #ragResults: [hidden, items]
    topKInput,    \* #ragTopK: the value of the input, a string of characters
    ttsToggle,    \* #ttsToggle: checked or not
    speech,       \* the browser's speech synthesis: available, absent or throwing
    lastAssistantText,  \* the text of the last assistant message
    chatNet,      \* /api/chat requests in flight: a bag
    ttsNet,       \* /api/tts requests in flight: a bag
    mic           \* the recorder: #micBtn, getUserMedia calls, MediaRecorders, flags

prefVars == <<store, storageOk>>
serverVars == <<kb, nextId>>
ragDom == <<ragList, toggle, ragStatus>>
ragVars == <<serverVars, ragNet, ragList, ragStatus>>
modelVars == <<sel, modelNet>>
chatVars == <<history, sendBtn, ragResults, topKInput, ttsToggle, speech, mic,
              lastAssistantText, chatNet, ttsNet>>
\* what the Document Registry leaves alone
notRagVars == <<modelVars, chatVars>>
vars == <<prefVars, serverVars, ragNet, ragDom, notRagVars>>

---------------------------------------------------------------------------
(* Bounds of the model.                                                    *)

\* documents the server ever creates
MaxDocs == 1
\* knowledge-base requests in flight at once
MaxRagInFlight == 2
\* model-list requests in flight at once
MaxModelsInFlight == 2
\* chat requests in flight at once
MaxChatInFlight == 2
\* speech requests in flight at once
MaxTtsInFlight == 1
\* microphone presses: permission requests and recorders the page ever has
MaxPress == 2
\* messages the history holds
MaxHist == 3

---------------------------------------------------------------------------
(* JavaScript values.                                                      *)

\* null / undefined; no string of the model holds this piece
Null == <<"__null__">>

Falsy(s) == s = Null \/ s = <<>>

\* the bag b with one copy of x replaced by y
Replace(b, x, y) == (b (-) SetToBag({x})) (+) SetToBag({y})

IsSpace(c) == c \in {" ", "\t", "\n"}

RECURSIVE TrimStart(_)
TrimStart(s) ==
    IF s # <<>> /\ IsSpace(Head(s)) THEN TrimStart(Tail(s)) ELSE s

RECURSIVE TrimEnd(_)
TrimEnd(s) ==
    IF s # <<>> /\ IsSpace(s[Len(s)]) THEN TrimEnd(SubSeq(s, 1, Len(s) - 1)) ELSE s

\* a trim that strips nothing
TrimNothing(s) == s

\* String.prototype.trim
Trim(s) == TrimEnd(TrimStart(s))

DigitChars == <<"0", "1", "2", "3", "4", "5", "6", "7", "8", "9">>

IsDigit(c) == \E d \in 1..10 : DigitChars[d] = c

DigitValue(c) == (CHOOSE d \in 1..10 : DigitChars[d] = c) - 1

RECURSIVE StrNat(_)
StrNat(n) == IF n < 10 THEN <<DigitChars[n + 1]>>
             ELSE StrNat(n \div 10) \o <<DigitChars[(n % 10) + 1]>>

\* String(n) of an integer
Str(n) == IF n < 0 THEN <<"-">> \o StrNat(-n) ELSE StrNat(n)

---------------------------------------------------------------------------
(* Preference Store: getStoredItem / setStoredItem over localStorage.      *)

STORAGE_KEYS ==
    [model      |-> "ollama-webui:selected-model",
     ragEnabled |-> "ollama-webui:rag-enabled",
     ragTopK    |-> "ollama-webui:rag-top-k"]

\* the storage holding model m, RAG-enabled e and top-K k
Storage(m, e, k) ==
    (STORAGE_KEYS.model :> m) @@ (STORAGE_KEYS.ragEnabled :> e) @@ (STORAGE_KEYS.ragTopK :> k)

\* the value read for key: null when the storage is missing or throws
getStoredItem(st, ok, key) == IF ok THEN st[key] ELSE Null

\* a store that files every value under the top-K key
setStoredItemTopKKey(st, ok, key, value) ==
    IF ok THEN [st EXCEPT ![STORAGE_KEYS.ragTopK] = value] ELSE st

\* a store whose write is not guarded: the value lands where it should not
setStoredItemNoCatch(st, ok, key, value) == [st EXCEPT ![key] = value]

\* the storage after setStoredItem(key, value): a failure is swallowed
setStoredItem(st, ok, key, value) == IF ok THEN [st EXCEPT ![key] = value] ELSE st

---------------------------------------------------------------------------
(* The backend's knowledge-base endpoints (GET/POST/DELETE /api/rag/docs). *)

\* chunks the server splits document d into
Chunks(d) == d + 1

RECURSIVE ChunkCount(_)
\* stats.chunk_count of a listing
ChunkCount(docs) == IF docs = <<>> THEN 0 ELSE Chunks(Head(docs)) + ChunkCount(Tail(docs))

Elems(s) == {s[i] : i \in DOMAIN s}

Without(s, d) == SelectSeq(s, LAMBDA x : x # d)

\* a request as fetch() issues it
RagReq(kind, ov, id) ==
    [kind |-> kind, st |-> "sent", status |-> 0, detail |-> Null,
     docs |-> <<>>, chunks |-> 0, ov |-> ov, id |-> id]

\* a response: st is "ok" (2xx), "http" (non-2xx) or "net" (fetch rejected)
Respond(r, st, status, detail, docs) ==
    [r EXCEPT !.st = st, !.status = status, !.detail = detail,
              !.docs = docs, !.chunks = ChunkCount(docs)]

\* the failures a request r ends in: a non-2xx answer, or fetch rejecting
Failures(r) ==
    { Respond(r, "net", 0, Null, <<>>),
      IF r.kind = "list"
      THEN Respond(r, "http", 500, Null, <<>>)
      ELSE Respond(r, "http", 400, <<"detail from server">>, <<>>) }

\* GET /api/rag/docs: the listing is taken when the server handles the request,
\* and reaches the page later
ServerList(r) ==
    /\ BagIn(r, ragNet)
    /\ r.st = "sent"
    /\ r.kind = "list"
    /\ ragNet' = Replace(ragNet, r, Respond(r, "ok", 200, Null, kb))
    /\ UNCHANGED <<prefVars, serverVars, ragDom, notRagVars>>

\* what fetch() of the listing request r can settle with: the listing the
\* server took, or a failure
ListAnswers(r) ==
    IF r.kind # "list" THEN {}
    ELSE (IF r.st = "ok" THEN {r} ELSE {}) \cup Failures(r)

\* POST /api/rag/docs: the answers the request r can get, each with the
\* knowledge base it leaves
ServerAdd(r) ==
    { [resp |-> f, kb |-> kb, nextId |-> nextId] : f \in Failures(r) }
    \cup (IF nextId <= MaxDocs
          THEN { [resp |-> Respond(r, "ok", 200, Null, <<>>),
                  kb |-> Append(kb, nextId), nextId |-> nextId + 1] }
          ELSE {})

\* DELETE /api/rag/docs/{id}
ServerDelete(r) ==
    { [resp |-> f, kb |-> kb, nextId |-> nextId] : f \in Failures(r) }
    \cup (IF r.id \in Elems(kb)
          THEN { [resp |-> Respond(r, "ok", 200, Null, <<>>),
                  kb |-> Without(kb, r.id), nextId |-> nextId] }
          ELSE { [resp |-> Respond(r, "http", 404, Null, <<>>),
                  kb |-> kb, nextId |-> nextId] })

\* DELETE /api/rag/docs
ServerClear(r) ==
    { [resp |-> f, kb |-> kb, nextId |-> nextId] : f \in Failures(r) }
    \cup { [resp |-> Respond(r, "ok", 200, Null, <<>>), kb |-> <<>>, nextId |-> nextId] }

---------------------------------------------------------------------------
(* Document Registry client: setRagStatus, renderRagDocs, fetchRagDocs,    *)
(* addRagDoc, deleteRagDoc, clearRagDocs.                                  *)

\* a status line that takes no severity class
setRagStatusNoClass(message, type) ==
    [text |-> IF Falsy(message) THEN <<>> ELSE message, type |-> "info"]

setRagStatus(message, type) ==
    [text |-> IF Falsy(message) THEN <<>> ELSE message,
     type |-> IF type \in {"error", "success"} THEN type ELSE "info"]

\* an error message that passes over the detail the server gave
ErrorMessageNoDetail(r) ==
    IF r.st = "net" THEN <<"Failed to fetch">> ELSE <<"HTTP ">> \o Str(r.status)

\* Error.message of a failed response r: data.detail || ('HTTP ' + res.status)
ErrorMessage(r) ==
    IF r.st = "net" THEN <<"Failed to fetch">>
    ELSE IF r.kind # "list" /\ ~Falsy(r.detail) THEN r.detail
    ELSE <<"HTTP ">> \o Str(r.status)

RECURSIVE AppendEach(_, _)
AppendEach(list, docs) ==
    IF docs = <<>> THEN list ELSE AppendEach(Append(list, Head(docs)), Tail(docs))

\* mutant: the listing is appended to the list on display, which is not emptied
renderRagDocsListNoClear(old, docs) == AppendEach(old, docs)

\* renderRagDocs: #ragList after the listing is rendered (old is what it showed)
renderRagDocsList(old, docs) == AppendEach(<<>>, docs)

\* mutant: a non-empty listing switches retrieval on
renderRagDocsToggleForcedOn(docs, tg, st, ok) ==
    IF Len(docs) = 0
    THEN [checked |-> FALSE, disabled |-> TRUE]
    ELSE [checked |-> TRUE, disabled |-> FALSE]

\* renderRagDocs: #ragToggle after the listing is rendered
renderRagDocsToggle(docs, tg, st, ok) ==
    IF Len(docs) = 0
    THEN [checked |-> FALSE, disabled |-> TRUE]
    ELSE LET stored == getStoredItem(st, ok, STORAGE_KEYS.ragEnabled)
         IN  [checked |-> IF stored # Null THEN stored = <<"1">> ELSE tg.checked,
              disabled |-> FALSE]

\* mutant: the forced-off state is not persisted
renderRagDocsStoreNoWrite(docs, st, ok) == st

\* renderRagDocs: localStorage after the listing is rendered
renderRagDocsStore(docs, st, ok) ==
    IF Len(docs) = 0
    THEN setStoredItem(st, ok, STORAGE_KEYS.ragEnabled, <<"0">>)
    ELSE st

\* the statusOverride argument of fetchRagDocs, by the operation that re-lists
StatusOverride(ov) ==
    CASE ov = "added"   -> [text |-> <<"Texten lades till i kunskapsbasen.">>, type |-> "success"]
      [] ov = "deleted" -> [text |-> <<"Texten togs bort.">>, type |-> "success"]
      [] ov = "cleared" -> [text |-> <<"Kunskapsbasen tomdes.">>, type |-> "success"]
      [] ov = "addText" -> [text |-> <<"Texten lades till i kunskapsbasen.">>, type |-> "success"]
      [] ov = "addUrl"  -> [text |-> <<"Webbsidan lades till i kunskapsbasen.">>, type |-> "success"]
      [] ov = "addPdf"  -> [text |-> <<"PDF-filen lades till i kunskapsbasen.">>, type |-> "success"]
      [] OTHER          -> [text |-> Null, type |-> "info"]

\* the status derived from the counts, whatever override was passed
fetchRagDocsStatusDerived(ov, count, chunkCount) ==
    IF count = 0
    THEN setRagStatus(<<"Ingen text har lagts till annu.">>, "info")
    ELSE setRagStatus(<<"Texter: ">> \o Str(count) \o <<" * ">> \o Str(chunkCount)
                      \o <<" utdrag.">>, "info")

\* fetchRagDocs: #ragStatus after a listing with count documents is rendered
fetchRagDocsStatus(ov, count, chunkCount) ==
    IF ~Falsy(StatusOverride(ov).text)
    THEN setRagStatus(StatusOverride(ov).text, StatusOverride(ov).type)
    ELSE IF count = 0
    THEN setRagStatus(<<"Ingen text har lagts till annu.">>, "info")
    ELSE setRagStatus(<<"Texter: ">> \o Str(count) \o <<" * ">> \o Str(chunkCount)
                      \o <<" utdrag.">>, "info")

\* fetchRagDocs up to its await: the status it shows (cur is the one showing)
fetchRagDocsStart(ov, cur) ==
    IF ov = "none" THEN setRagStatus(<<"Hamtar kunskapsbas...">>, "info") ELSE cur

\* fetchRagDocs, catch: #ragStatus, #ragList (old is what it showed) and
\* #ragToggle after the listing failed
fetchRagDocsCatchStatus(r) ==
    setRagStatus(<<"Kunde inte hamta kunskapsbasen: ">> \o ErrorMessage(r), "error")

\* mutant: a failed listing leaves the list on display
fetchRagDocsCatchListKeep(old) == old

fetchRagDocsCatchList(old) == <<>>

\* mutant: a failed listing leaves the toggle as it is
fetchRagDocsCatchToggleKeep(tg) == tg

fetchRagDocsCatchToggle(tg) == [checked |-> FALSE, disabled |-> TRUE]

\* fetchRagDocs after its await: the request r settles with resp
fetchRagDocsResume(r, resp) ==
    /\ BagIn(r, ragNet)
    /\ r.kind = "list"
    /\ resp \in ListAnswers(r)
    /\ ragNet' = ragNet (-) SetToBag({r})
    /\ IF resp.st = "ok"
       THEN /\ ragList' = renderRagDocsList(ragList, resp.docs)
            /\ toggle' = renderRagDocsToggle(resp.docs, toggle, store, storageOk)
            /\ store' = renderRagDocsStore(resp.docs, store, storageOk)
            /\ ragStatus' = fetchRagDocsStatus(resp.ov, Len(resp.docs), resp.chunks)
       ELSE /\ ragStatus' = fetchRagDocsCatchStatus(resp)
            /\ ragList' = fetchRagDocsCatchList(ragList)
            /\ toggle' = fetchRagDocsCatchToggle(toggle)
            /\ store' = store
    /\ UNCHANGED <<storageOk, serverVars, notRagVars>>

\* the user clicks #addRag with text in #ragInput (the textarea itself, which a
\* successful add empties, is not part of the state)
addRagDoc(text) ==
    /\ IF Trim(text) = <<>>
       THEN /\ ragStatus' = setRagStatus(<<"Skriv eller klistra in text forst.">>, "error")
            /\ ragNet' = ragNet
       ELSE /\ BagCardinality(ragNet) < MaxRagInFlight
            /\ ragStatus' = setRagStatus(<<"Lagger till text...">>, "info")
            /\ ragNet' = ragNet (+) SetToBag({RagReq("add", "none", 0)})
    /\ UNCHANGED <<prefVars, serverVars, ragList, toggle, notRagVars>>

\* addRagDoc after its await: the request r is answered
addRagDocResume(r) ==
    /\ BagIn(r, ragNet)
    /\ r.kind = "add"
    /\ \E a \in ServerAdd(r) :
          /\ kb' = a.kb
          /\ nextId' = a.nextId
          /\ IF a.resp.st = "ok"
             THEN /\ ragStatus' = fetchRagDocsStart("added", ragStatus)
                  /\ ragNet' = Replace(ragNet, r, RagReq("list", "added", 0))
             ELSE /\ ragStatus' = setRagStatus(<<"Kunde inte lagga till text: ">>
                                               \o ErrorMessage(a.resp), "error")
                  /\ ragNet' = ragNet (-) SetToBag({r})
    /\ UNCHANGED <<prefVars, ragList, toggle, notRagVars>>

\* the user clicks the remove button of the rendered document id; id 0 is a
\* call with a falsy id, as for a document listed without one
deleteRagDoc(id) ==
    /\ id = 0 \/ id \in Elems(ragList)
    /\ IF id = 0
       THEN UNCHANGED ragNet
       ELSE /\ BagCardinality(ragNet) < MaxRagInFlight
            /\ ragNet' = ragNet (+) SetToBag({RagReq("delete", "none", id)})
    /\ UNCHANGED <<prefVars, serverVars, ragDom, notRagVars>>

\* deleteRagDoc after its await: the request r is answered
deleteRagDocResume(r) ==
    /\ BagIn(r, ragNet)
    /\ r.kind = "delete"
    /\ \E a \in ServerDelete(r) :
          /\ kb' = a.kb
          /\ nextId' = a.nextId
          /\ IF a.resp.st = "ok"
             THEN /\ ragStatus' = fetchRagDocsStart("deleted", ragStatus)
                  /\ ragNet' = Replace(ragNet, r, RagReq("list", "deleted", 0))
             ELSE /\ ragStatus' = setRagStatus(<<"Kunde inte ta bort text: ">>
                                               \o ErrorMessage(a.resp), "error")
                  /\ ragNet' = ragNet (-) SetToBag({r})
    /\ UNCHANGED <<prefVars, ragList, toggle, notRagVars>>

\* the knowledge base is emptied whatever window.confirm returned
clearRagDocsGoesOnAlways(confirmed) == TRUE

\* clearRagDocs goes on past if (!window.confirm(...)) return;
clearRagDocsGoesOn(confirmed) == confirmed

\* the user clicks #clearRag and answers window.confirm
clearRagDocs(confirmed) ==
    /\ IF ~clearRagDocsGoesOn(confirmed)
       THEN UNCHANGED ragNet
       ELSE /\ BagCardinality(ragNet) < MaxRagInFlight
            /\ ragNet' = ragNet (+) SetToBag({RagReq("clear", "none", 0)})
    /\ UNCHANGED <<prefVars, serverVars, ragDom, notRagVars>>

\* clearRagDocs after its await: the request r is answered
clearRagDocsResume(r) ==
    /\ BagIn(r, ragNet)
    /\ r.kind = "clear"
    /\ \E a \in ServerClear(r) :
          /\ kb' = a.kb
          /\ nextId' = a.nextId
          /\ IF a.resp.st = "ok"
             THEN /\ ragStatus' = fetchRagDocsStart("cleared", ragStatus)
                  /\ ragNet' = Replace(ragNet, r, RagReq("list", "cleared", 0))
             ELSE /\ ragStatus' = setRagStatus(<<"Kunde inte rensa kunskapsbasen: ">>
                                               \o ErrorMessage(a.resp), "error")
                  /\ ragNet' = ragNet (-) SetToBag({r})
    /\ UNCHANGED <<prefVars, ragList, toggle, notRagVars>>

---------------------------------------------------------------------------
(* The knowledge-base page (app/static/rag.js): addTextDoc, addUrlDoc,     *)
(* uploadPdf, deleteRagDoc and fetchRagDocs.  The page has its own         *)
(* #ragList and #ragStatus and no #ragToggle; as it is never the same      *)
(* document as the chat page, it is modelled on the same variables.  Its   *)
(* #clearRag button and summary line follow from the list.                 *)

\* the status line each add operation shows: when there is nothing to add,
\* while the request is under way, and in front of the error of a failed one
AddTexts(kind) ==
    CASE kind = "addText" -> [invalid |-> <<"Skriv eller klistra in text forst.">>,
                              busy |-> <<"Lagger till text...">>,
                              failed |-> <<"Kunde inte lagga till text: ">>]
      [] kind = "addUrl"  -> [invalid |-> <<"Ange en URL forst.">>,
                              busy |-> <<"Hamtar webbsidan...">>,
                              failed |-> <<"Kunde inte lagga till webbsidan: ">>]
      [] kind = "addPdf"  -> [invalid |-> <<"Valj en PDF-fil forst.">>,
                              busy |-> <<"Laddar upp PDF...">>,
                              failed |-> <<"Kunde inte lagga till PDF: ">>]

\* the button of the add operation kind is disabled: from the fetch until the
\* finally clause, which runs after the listing the operation awaits
AddBtnDisabled(kind) ==
    \E r \in BagToSet(ragNet) : r.kind = kind \/ (r.kind = "list" /\ r.ov = kind)

\* an add operation up to its await: valid tells whether there is something
\* to add
addDocStart(kind, valid) ==
    /\ IF ~valid
       THEN /\ ragStatus' = setRagStatus(AddTexts(kind).invalid, "error")
            /\ ragNet' = ragNet
       ELSE /\ BagCardinality(ragNet) < MaxRagInFlight
            /\ ragStatus' = setRagStatus(AddTexts(kind).busy, "info")
            /\ ragNet' = ragNet (+) SetToBag({RagReq(kind, "none", 0)})
    /\ UNCHANGED <<prefVars, serverVars, ragList, toggle, notRagVars>>

\* the user clicks #addTextBtn with text in #ragTextInput
addTextDoc(text) ==
    /\ ~AddBtnDisabled("addText")
    /\ addDocStart("addText", Trim(text) # <<>>)

\* the user clicks #addUrlBtn with url in #ragUrlInput
addUrlDoc(url) ==
    /\ ~AddBtnDisabled("addUrl")
    /\ addDocStart("addUrl", Trim(url) # <<>>)

\* the user submits #ragPdfForm; file is input.files[0], Null with none chosen
uploadPdf(file) ==
    /\ ~AddBtnDisabled("addPdf")
    /\ addDocStart("addPdf", file # Null)

\* an add operation after its await: the request r is answered
addDocResume(r) ==
    /\ BagIn(r, ragNet)
    /\ r.kind \in {"addText", "addUrl", "addPdf"}
    /\ \E a \in ServerAdd(r) :
          /\ kb' = a.kb
          /\ nextId' = a.nextId
          /\ IF a.resp.st = "ok"
             THEN /\ ragStatus' = fetchRagDocsStart(r.kind, ragStatus)
                  /\ ragNet' = Replace(ragNet, r, RagReq("list", r.kind, 0))
             ELSE /\ ragStatus' = setRagStatus(AddTexts(r.kind).failed
                                               \o ErrorMessage(a.resp), "error")
                  /\ ragNet' = ragNet (-) SetToBag({r})
    /\ UNCHANGED <<prefVars, ragList, toggle, notRagVars>>

\* deleteRagDoc of rag.js, called by a remove button with the document's id;
\* id 0 is a call with a falsy id
deleteRagDocKb(id) ==
    /\ id = 0 \/ id \in Elems(ragList)
    /\ IF id = 0
       THEN UNCHANGED ragNet
       ELSE /\ BagCardinality(ragNet) < MaxRagInFlight
            /\ ragNet' = ragNet (+) SetToBag({RagReq("delete", "none", id)})
    /\ UNCHANGED <<prefVars, serverVars, ragDom, notRagVars>>

\* deleteRagDoc of rag.js after its await: the request r is answered
deleteRagDocKbResume(r) ==
    /\ BagIn(r, ragNet)
    /\ r.kind = "delete"
    /\ \E a \in ServerDelete(r) :
          /\ kb' = a.kb
          /\ nextId' = a.nextId
          /\ IF a.resp.st = "ok"
             THEN /\ ragStatus' = fetchRagDocsStart("deleted", ragStatus)
                  /\ ragNet' = Replace(ragNet, r, RagReq("list", "deleted", 0))
             ELSE /\ ragStatus' = setRagStatus(<<"Kunde inte ta bort text: ">>
                                               \o ErrorMessage(a.resp), "error")
                  /\ ragNet' = ragNet (-) SetToBag({r})
    /\ UNCHANGED <<prefVars, ragList, toggle, notRagVars>>

\* fetchRagDocs of rag.js after its await: the request r settles with resp
fetchRagDocsKbResume(r, resp) ==
    /\ BagIn(r, ragNet)
    /\ r.kind = "list"
    /\ resp \in ListAnswers(r)
    /\ ragNet' = ragNet (-) SetToBag({r})
    /\ IF resp.st = "ok"
       THEN /\ ragList' = renderRagDocsList(ragList, resp.docs)
            /\ ragStatus' = fetchRagDocsStatus(resp.ov, Len(resp.docs), resp.chunks)
       ELSE /\ ragStatus' = fetchRagDocsCatchStatus(resp)
            /\ ragList' = fetchRagDocsCatchList(ragList)
    /\ UNCHANGED <<prefVars, serverVars, toggle, notRagVars>>

\* an error on the status line disables #clearRag
ClearBtnDisabledOnError == ragList = <<>> \/ ragStatus.type = "error"

\* #clearRag is disabled, as the listing that settled last left it:
\* renderRagDocs sets clearBtn.disabled = safeDocs.length === 0, the catch of
\* fetchRagDocs empties the list and sets clearBtn.disabled = true
ClearBtnDisabled == ragList = <<>>

\* the listing of the page script has not settled: until a listing has,
\* #clearRag is as the page's markup has it, which may be enabled
FirstListingPending == \E r \in BagToSet(ragNet) : r.kind = "list" /\ r.ov = "none"

\* clearRagDocs of rag.js: the user clicks #clearRag and answers
\* window.confirm
clearRagDocsKb(confirmed) ==
    /\ ~ClearBtnDisabled \/ FirstListingPending
    /\ IF ~clearRagDocsGoesOn(confirmed)
       THEN UNCHANGED ragNet
       ELSE /\ BagCardinality(ragNet) < MaxRagInFlight
            /\ ragNet' = ragNet (+) SetToBag({RagReq("clear", "none", 0)})
    /\ UNCHANGED <<prefVars, serverVars, ragDom, notRagVars>>

\* clearRagDocs of rag.js after its await: the request r is answered
clearRagDocsKbResume(r) ==
    /\ BagIn(r, ragNet)
    /\ r.kind = "clear"
    /\ \E a \in ServerClear(r) :
          /\ kb' = a.kb
          /\ nextId' = a.nextId
          /\ IF a.resp.st = "ok"
             THEN /\ ragStatus' = fetchRagDocsStart("cleared", ragStatus)
                  /\ ragNet' = Replace(ragNet, r, RagReq("list", "cleared", 0))
             ELSE /\ ragStatus' = setRagStatus(<<"Kunde inte rensa kunskapsbasen: ">>
                                               \o ErrorMessage(a.resp), "error")
                  /\ ragNet' = ragNet (-) SetToBag({r})
    /\ UNCHANGED <<prefVars, ragList, toggle, notRagVars>>

\* the change handler of #ragToggle: the user clicks the enabled checkbox
ragToggleChange ==
    /\ ~toggle.disabled
    /\ toggle' = [toggle EXCEPT !.checked = ~toggle.checked]
    /\ store' = setStoredItem(store, storageOk, STORAGE_KEYS.ragEnabled,
                              IF toggle'.checked THEN <<"1">> ELSE <<"0">>)
    /\ UNCHANGED <<storageOk, serverVars, ragNet, ragList, ragStatus, notRagVars>>

---------------------------------------------------------------------------
(* Model Selector: fetchModels, the refresh button, the change handler of  *)
(* #model.                                                                 *)

\* window.DEFAULT_MODEL || 'llama3.2:1b', with window.DEFAULT_MODEL not set
DEFAULT_MODEL == <<"llama3.2:1b">>

OtherModel == <<"mistral">>

\* the lists GET /api/models answers with; a non-2xx answer with a JSON body
\* has no models member, which fetchModels reads as the empty list
ModelLists == { <<>>, <<OtherModel>>, <<DEFAULT_MODEL, OtherModel>> }

\* what fetch('/api/models') settles with: a body, or a rejection (of fetch or
\* of res.json())
ModelAnswers == [st : {"ok"}, models : ModelLists] \cup {[st |-> "fail", models |-> <<>>]}

Option(value, label) == [value |-> value, text |-> value \o label]

RECURSIVE ModelOptions(_)
ModelOptions(models) ==
    IF models = <<>> THEN <<>>
    ELSE <<Option(Head(models), <<>>)>> \o ModelOptions(Tail(models))

\* the select after sel.innerHTML = ''
ClearedSelect == [options |-> <<>>, value |-> <<>>]

\* the stored preference is not consulted
PreferredDefaultOnly(st, ok) == DEFAULT_MODEL

\* getStoredItem(STORAGE_KEYS.model) || window.DEFAULT_MODEL || 'llama3.2:1b'
Preferred(st, ok) ==
    LET stored == getStoredItem(st, ok, STORAGE_KEYS.model)
    IN  IF Falsy(stored) THEN DEFAULT_MODEL ELSE stored

\* the options without the extra one for a preferred model that is not listed
fetchModelsOptionsNoExtra(models, preferred) ==
    IF Len(models) = 0
    THEN <<Option(preferred, <<" (ej installerad an)">>)>>
    ELSE ModelOptions(models)

\* fetchModels, try: the options built from the answer's models
fetchModelsOptions(models, preferred) ==
    LET listed == IF Len(models) = 0
                  THEN <<Option(preferred, <<" (ej installerad an)">>)>>
                  ELSE ModelOptions(models)
        available == {listed[i].value : i \in DOMAIN listed}
    IN  listed \o (IF preferred \notin available
                   THEN <<Option(preferred, <<" (standard)">>)>>
                   ELSE <<>>)

\* fetchModels, try: the select s after the answer's options are appended to it
fetchModelsTry(s, models, st, ok) ==
    [options |-> s.options \o fetchModelsOptions(models, Preferred(st, ok)),
     value |-> Preferred(st, ok)]

\* fetchModels, catch: the select s after the fallback option is appended to it
fetchModelsCatch(s) ==
    [options |-> Append(s.options, Option(DEFAULT_MODEL, <<" (endpoint otillganglig)">>)),
     value |-> DEFAULT_MODEL]

\* fetchModels up to its await: at page load, or the user clicks #refreshModels
fetchModels ==
    /\ modelNet < MaxModelsInFlight
    /\ sel' = ClearedSelect
    /\ modelNet' = modelNet + 1
    /\ UNCHANGED <<prefVars, ragVars, toggle, chatVars>>

\* fetchModels after its await: a request settles with resp
fetchModelsResume(resp) ==
    /\ modelNet > 0
    /\ resp \in ModelAnswers
    /\ modelNet' = modelNet - 1
    /\ sel' = IF resp.st = "ok"
              THEN fetchModelsTry(sel, resp.models, store, storageOk)
              ELSE fetchModelsCatch(sel)
    /\ UNCHANGED <<prefVars, ragVars, toggle, chatVars>>

\* the change handler of #model: the user picks the offered option i
modelChange(i) ==
    /\ i \in DOMAIN sel.options
    /\ sel.options[i].value # sel.value
    /\ sel' = [sel EXCEPT !.value = sel.options[i].value]
    /\ store' = setStoredItem(store, storageOk, STORAGE_KEYS.model, sel'.value)
    /\ UNCHANGED <<storageOk, ragVars, toggle, modelNet, chatVars>>

---------------------------------------------------------------------------
(* Chat Session Controller and Retrieval Display: sendPrompt,              *)
(* renderRagResults, the top-K input, addMsg with its speech hook.         *)

RECURSIVE DigitsPrefix(_)
\* the longest prefix of s made of decimal digits
DigitsPrefix(s) ==
    IF s # <<>> /\ IsDigit(Head(s)) THEN <<Head(s)>> \o DigitsPrefix(Tail(s)) ELSE <<>>

RECURSIVE DigitsValue(_, _)
DigitsValue(ds, acc) ==
    IF ds = <<>> THEN acc ELSE DigitsValue(Tail(ds), 10 * acc + DigitValue(Head(ds)))

\* parseInt(s, 10): leading white space, a sign, then digits; NaN without digits
ParseInt(s) ==
    LET t == TrimStart(s)
        signed == t # <<>> /\ Head(t) \in {"-", "+"}
        ds == DigitsPrefix(IF signed THEN Tail(t) ELSE t)
        v == DigitsValue(ds, 0)
    IN  IF ds = <<>> THEN [nan |-> TRUE, val |-> 0]
        ELSE [nan |-> FALSE, val |-> IF signed /\ Head(t) = "-" THEN -v ELSE v]

\* the clamp without its upper limit
ClampTopKNoMax(p) == IF p.nan \/ p.val < 1 THEN 3 ELSE p.val

\* the top-K used for the parsed value p: 3 unless p is a number >= 1, at most 10
ClampTopK(p) ==
    IF p.nan \/ p.val < 1 THEN 3
    ELSE IF p.val > 10 THEN 10
    ELSE p.val

\* mutant: the top-K of a send is not limited to 10
sendPromptTopKNoMax(value) ==
    LET p == ParseInt(IF Falsy(value) THEN <<"3">> ELSE value)
    IN  IF p.nan \/ p.val < 1 THEN 3 ELSE p.val

\* sendPrompt: parseInt(ragTopKInput?.value || '3', 10), clamped
sendPromptTopK(value) == ClampTopK(ParseInt(IF Falsy(value) THEN <<"3">> ELSE value))

\* a score: t is "num" for a finite number, v its value in units of 0.0001;
\* "inf" for an infinity of sign v; "nan" for NaN; "none" for no number
Num(v) == [t |-> "num", v |-> v]

NoScore == [t |-> "none", v |-> 0]

\* the retrieval items the backend may return, by name, with item.score and
\* item.text
RagItems == {"p1", "p2", "p3"}

\* the scores that are numbers without being finite: NaN and the infinities
\* (JSON.parse gives Infinity for a literal such as 1e999)
NaN == [t |-> "nan", v |-> 0]

Infinity(sign) == [t |-> "inf", v |-> sign]

\* further items, to show how a score is annotated
ScoredItems == {"p4", "p5", "p6", "p7", "p8", "p9", "p10", "p11"}

ItemScore(item) ==
    CASE item = "p1"  -> Num(8734)
      [] item = "p2"  -> NoScore
      [] item = "p4"  -> NaN
      [] item = "p5"  -> Infinity(1)
      [] item = "p6"  -> Infinity(-1)
      [] item = "p7"  -> Num(9570)
      [] item = "p8"  -> Num(-20000)
      [] item = "p9"  -> Num(5)
      [] item = "p10" -> Num(-5)
      [] item = "p11" -> Num(3333)
      [] OTHER        -> Num(-15000)

ItemText(item) ==
    CASE item = "p1" -> <<"utdrag">>
      [] item = "p2" -> <<"annat">>
      [] item \in ScoredItems -> <<"text">>
      [] OTHER       -> Null

\* typeof item.score === 'number' && !Number.isNaN(item.score)
ScoreIsNumber(score) == score.t \in {"num", "inf"}

\* Math.max(-1, Math.min(1, item.score)), in units of 0.0001
ScoreClamped(score) ==
    IF score.t = "inf" THEN score.v * 10000
    ELSE IF score.v > 10000 THEN 10000
    ELSE IF score.v < -10000 THEN -10000
    ELSE score.v

\* Math.round(clamped * 1000), which rounds a half upwards
ScoreRounded(score) == (ScoreClamped(score) + 5) \div 10

\* the text of Math.round(clamped * 1000) / 10
PercentText(r) ==
    LET a == IF r < 0 THEN -r ELSE r
    IN  (IF r < 0 THEN <<"-">> ELSE <<>>) \o StrNat(a \div 10)
        \o (IF a % 10 # 0 THEN <<".">> \o StrNat(a % 10) ELSE <<>>)

\* renderRagResults: the <li> of item, the idx-th of the items (from 0)
renderRagResultsEntry(item, idx) ==
    [label |-> <<"Utdrag ">> \o Str(idx + 1)
               \o (IF ScoreIsNumber(ItemScore(item))
                   THEN <<" * likhet ">> \o PercentText(ScoreRounded(ItemScore(item)))
                        \o <<"%">>
                   ELSE <<>>),
     text |-> IF Falsy(ItemText(item)) THEN <<>> ELSE ItemText(item)]

\* the entries stay in the list when it is rendered anew
renderRagResultsNoClear(list) == list

\* renderRagResults: list.innerHTML = ''
renderRagResultsClear(list) == <<>>

\* renderRagResults(items) over the region as it is (old): items is Null
\* when it is not an array
renderRagResultsOn(old, items) ==
    LET list == renderRagResultsClear(old.items)
    IN  IF items = Null \/ Len(items) = 0
        THEN [hidden |-> TRUE, items |-> list]
        ELSE [hidden |-> FALSE,
              items |-> list \o [i \in 1..Len(items) |->
                                    renderRagResultsEntry(items[i], i - 1)]]

\* renderRagResults(items) over the region of a page just loaded
renderRagResults(items) == renderRagResultsOn([hidden |-> TRUE, items |-> <<>>], items)

\* the page as addMsg sees and changes it; threw is set when addMsg throws
Ctx == [history |-> history, last |-> lastAssistantText, tts |-> ttsNet, threw |-> FALSE]

TtsReq(text) == [text |-> text]

\* the message of the error speakBrowser throws
SpeechError == <<"SpeechSynthesisUtterance is not defined">>

\* #history holds the new message alone
origAddMsgAlone(h, role, text) ==
    <<[role |-> IF role = "user" THEN "user" ELSE "assistant", text |-> text]>>

\* the original addMsg: one more message in #history
origAddMsg(h, role, text) ==
    Append(h, [role |-> IF role = "user" THEN "user" ELSE "assistant", text |-> text])

\* addMsg as patched: the message is appended; an assistant message is then
\* remembered and, with the speech toggle on, spoken by the browser or, when
\* speakBrowser returns false, sent to /api/tts (downloadServerTTS up to its await)
addMsg(c, role, text) ==
    LET shown == [c EXCEPT !.history = origAddMsg(c.history, role, text)]
    IN  IF role # "assistant" THEN shown
        ELSE LET kept == [shown EXCEPT !.last = text]
             IN  IF ~ttsToggle THEN kept
                 ELSE CASE speech = "throws" -> [kept EXCEPT !.threw = TRUE]
                        [] speech = "absent" ->
                              [kept EXCEPT !.tts = kept.tts (+) SetToBag({TtsReq(text)})]
                        [] OTHER -> kept

\* the most messages #history holds in the model: MaxHist, and one more for
\* the answer that arrives over a displayed context while the speech hook
\* throws, which takes two overlapping sends and both their answers
HistCap ==
    IF ~ragResults.hidden /\ ttsToggle /\ speech = "throws" THEN MaxHist + 1 ELSE MaxHist

\* the page takes the outcome c of a handler, within the bounds of the model
Adopt(c) ==
    /\ Len(c.history) <= HistCap
    /\ BagCardinality(c.tts) <= MaxTtsInFlight
    /\ history' = c.history
    /\ lastAssistantText' = c.last
    /\ ttsNet' = c.tts

\* the backend's chat endpoint (POST /api/chat)

\* the body of a chat request: useRag tells whether it has the member
\* use_rag (true), topK is its rag_top_k, 0 for a body without that member
ChatReq(model, useRag, topK) == [model |-> model, useRag |-> useRag, topK |-> topK]

Passages == <<"p1">>

\* what fetch('/api/chat') of the request r settles with
ChatAnswers(r) ==
    { [st |-> "ok", status |-> 200, detail |-> Null, content |-> <<"svar">>, ctx |-> x] :
        x \in {Null, <<>>, Passages} }
    \cup { [st |-> "http", status |-> 500, detail |-> Null, content |-> Null, ctx |-> Null],
           [st |-> "net", status |-> 0, detail |-> Null, content |-> Null, ctx |-> Null],
           [st |-> "parse", status |-> 200, detail |-> Null, content |-> Null, ctx |-> Null] }

\* e.message in sendPrompt's catch: err.detail || ('HTTP ' + res.status), or
\* what fetch or res.json() of a 200 response with an unparsable body threw
ChatErrorMessage(resp) ==
    IF resp.st = "net" THEN <<"Failed to fetch">>
    ELSE IF resp.st = "parse" THEN <<"Unexpected token">>
    ELSE IF ~Falsy(resp.detail) THEN resp.detail
    ELSE <<"HTTP ">> \o Str(resp.status)

Busy == [disabled |-> TRUE, label |-> "Tanker..."]

Ready == [disabled |-> FALSE, label |-> "Skicka"]

\* retrieval is asked for whatever #ragToggle's disabled attribute says
sendPromptUseRagChecked(tg) == tg.checked

\* sendPrompt: !!(ragToggleEl && !ragToggleEl.disabled && ragToggleEl.checked)
sendPromptUseRag(tg) == ~tg.disabled /\ tg.checked

\* the request names whatever #model holds, also nothing
sendPromptModelNoDefault(value) == value

\* sendPrompt: document.getElementById('model').value || window.DEFAULT_MODEL
\* || 'llama3.2:1b'
sendPromptModel(value) == IF Falsy(value) THEN DEFAULT_MODEL ELSE value

\* sendPrompt up to its await, with text in #prompt
sendPrompt(text) ==
    LET ragTopK == sendPromptTopK(topKInput)
        useRag == sendPromptUseRag(toggle)
        userText == Trim(text)
    IN  /\ topKInput' = Str(ragTopK)
        /\ IF userText = <<>>
           THEN UNCHANGED <<history, lastAssistantText, ttsNet, sendBtn, ragResults, chatNet>>
           ELSE /\ BagCardinality(chatNet) < MaxChatInFlight
                /\ Adopt(addMsg(Ctx, "user", userText))
                /\ sendBtn' = Busy
                /\ ragResults' = renderRagResultsOn(ragResults, <<>>)
                /\ chatNet' = chatNet (+) SetToBag({ChatReq(
                        sendPromptModel(sel.value),
                        useRag, IF useRag THEN ragTopK ELSE 0)})
        /\ UNCHANGED <<prefVars, ragVars, toggle, modelVars, ttsToggle, speech, mic>>

\* the user clicks #send, which a disabled button does not take
sendClick(text) == ~sendBtn.disabled /\ sendPrompt(text)

\* the keydown handler of #prompt: the user presses key, with text in #prompt
promptKeydown(ctrlKey, metaKey, key, text) ==
    IF (ctrlKey \/ metaKey) /\ key = "Enter"
    THEN sendPrompt(text)
    ELSE UNCHANGED vars

\* #send as a sendPrompt without its finally clause would leave it
sendPromptFinallyMissing(btn) == btn

\* sendPrompt, finally: #send
sendPromptFinally(btn) == Ready

\* sendPrompt after its await: the request r settles with resp
sendPromptResume(r, resp) ==
    LET ok == resp.st = "ok"
        answered == IF ok
                    THEN addMsg(Ctx, "assistant",
                                IF Falsy(resp.content) THEN <<"[Inget svar]">> ELSE resp.content)
                    ELSE Ctx
        caught == ~ok \/ answered.threw
        e == IF ok THEN SpeechError ELSE ChatErrorMessage(resp)
        told == IF caught
                THEN addMsg([answered EXCEPT !.threw = FALSE], "assistant",
                            <<"Fel: ">> \o e
                            \o <<"\nTips: sakerstall att Ollama kor och att modellen ar hamtad.">>)
                ELSE answered
    IN  /\ BagIn(r, chatNet)
        /\ resp \in ChatAnswers(r)
        /\ chatNet' = chatNet (-) SetToBag({r})
        /\ Adopt(told)
        /\ ragResults' = IF ~caught
                         THEN IF r.useRag \/ resp.ctx # Null
                              THEN renderRagResultsOn(ragResults,
                                       IF resp.ctx = Null THEN <<>> ELSE resp.ctx)
                              ELSE renderRagResultsOn(ragResults, <<>>)
                         ELSE IF told.threw THEN ragResults
                         ELSE renderRagResultsOn(ragResults, <<>>)
        /\ sendBtn' = sendPromptFinally(sendBtn)
        /\ UNCHANGED <<prefVars, ragVars, toggle, modelVars, topKInput, ttsToggle, speech, mic>>

\* the user edits #ragTopK: the value is there, the change event not yet fired
ragTopKType(value) ==
    /\ value # topKInput
    /\ topKInput' = value
    /\ UNCHANGED <<prefVars, ragVars, toggle, modelVars, history, sendBtn, ragResults,
                   ttsToggle, speech, mic, lastAssistantText, chatNet, ttsNet>>

\* the change handler of #ragTopK
ragTopKChange ==
    LET value == ClampTopK(ParseInt(topKInput))
    IN  /\ topKInput' = Str(value)
        /\ store' = setStoredItem(store, storageOk, STORAGE_KEYS.ragTopK, Str(value))
        /\ UNCHANGED <<storageOk, ragVars, toggle, modelVars, history, sendBtn, ragResults,
                       ttsToggle, speech, mic, lastAssistantText, chatNet, ttsNet>>

\* the restore with the stored number taken as it is
ragTopKInitNoClamp(markup, st, ok) ==
    LET stored == getStoredItem(st, ok, STORAGE_KEYS.ragTopK)
        storedTopK == ParseInt(IF Falsy(stored) THEN <<>> ELSE stored)
    IN  IF ~storedTopK.nan /\ storedTopK.val >= 1
        THEN Str(storedTopK.val)
        ELSE markup

\* #ragTopK after the page script restored the stored preference
ragTopKInit(markup, st, ok) ==
    LET stored == getStoredItem(st, ok, STORAGE_KEYS.ragTopK)
        storedTopK == ParseInt(IF Falsy(stored) THEN <<>> ELSE stored)
    IN  IF ~storedTopK.nan /\ storedTopK.val >= 1
        THEN Str(IF storedTopK.val > 10 THEN 10 ELSE storedTopK.val)
        ELSE markup

\* the user clicks #ttsToggle
ttsToggleClick ==
    /\ ttsToggle' = ~ttsToggle
    /\ UNCHANGED <<prefVars, ragVars, toggle, modelVars, history, sendBtn, ragResults,
                   topKInput, speech, mic, lastAssistantText, chatNet, ttsNet>>

\* the backend's speech endpoint (POST /api/tts): a sound file, or a failure
TtsAnswers ==
    { [st |-> "ok", status |-> 200], [st |-> "http", status |-> 500],
      [st |-> "net", status |-> 0] }

\* the user clicks #dlTts
dlTtsClick ==
    /\ IF Falsy(lastAssistantText)
       THEN Adopt(addMsg(Ctx, "assistant", <<"Inget svar att lasa upp annu.">>))
       ELSE Adopt([Ctx EXCEPT !.tts = ttsNet (+) SetToBag({TtsReq(lastAssistantText)})])
    /\ UNCHANGED <<prefVars, ragVars, toggle, modelVars, sendBtn, ragResults, topKInput,
                   ttsToggle, speech, mic, chatNet>>

\* downloadServerTTS after its await: the request r settles with resp
downloadServerTTSResume(r, resp) ==
    LET done == [Ctx EXCEPT !.tts = ttsNet (-) SetToBag({r})]
    IN  /\ BagIn(r, ttsNet)
        /\ resp \in TtsAnswers
        /\ IF resp.st = "ok"
           THEN Adopt(done)
           ELSE Adopt(addMsg(done, "assistant",
                             <<"Kunde inte skapa ljudfil: ">>
                             \o (IF resp.st = "net" THEN <<"Failed to fetch">>
                                 ELSE <<"HTTP ">> \o Str(resp.status))))
        /\ UNCHANGED <<prefVars, ragVars, toggle, modelVars, sendBtn, ragResults, topKInput,
                       ttsToggle, speech, mic, chatNet>>

---------------------------------------------------------------------------
(* Recording: #micBtn, startRecording, stopRecording and                   *)
(* sendAudioForTranscription.  The audio itself (chunks) is not modelled.  *)

\* let mediaRecorder; let recording = false; nothing pressed, asked or sent.
\* recorders are the MediaRecorder objects made so far, each "recording",
\* "stopping" (stop() called, its stop event not yet dispatched) or
\* "inactive"; mediaRecorder is the last of them
MicIdle ==
    [pressed |-> FALSE, pending |-> 0, recorders |-> <<>>, recording |-> FALSE,
     recordingClass |-> FALSE, transcribing |-> 0]

\* what fetch('/api/transcribe') settles with
TranscribeAnswers ==
    { [st |-> "ok", status |-> 200, text |-> <<"hej">>],
      [st |-> "ok", status |-> 200, text |-> <<>>],
      [st |-> "http", status |-> 500, text |-> <<>>],
      [st |-> "net", status |-> 0, text |-> <<>>] }

\* stopRecording: if (mediaRecorder && recording) { stop(); recording = false; ... }
stopRecording(m) ==
    IF m.recorders # <<>> /\ m.recording
    THEN [m EXCEPT !.recorders[Len(m.recorders)] = "stopping",
                   !.recording = FALSE, !.recordingClass = FALSE]
    ELSE m

\* mousedown or touchstart on #micBtn: startRecording up to its await
startRecording ==
    /\ ~mic.pressed
    /\ mic.pending + Len(mic.recorders) < MaxPress
    /\ mic' = [mic EXCEPT !.pressed = TRUE, !.pending = @ + 1]
    /\ UNCHANGED <<prefVars, ragVars, toggle, modelVars, history, sendBtn, ragResults,
                   topKInput, ttsToggle, speech, lastAssistantText, chatNet, ttsNet>>

\* startRecording after its await: getUserMedia grants the microphone or
\* rejects
startRecordingResume(granted) ==
    /\ mic.pending > 0
    /\ IF granted
       THEN /\ mic' = [mic EXCEPT !.pending = @ - 1,
                                  !.recorders = Append(@, "recording"),
                                  !.recording = TRUE, !.recordingClass = TRUE]
            /\ UNCHANGED <<history, lastAssistantText, ttsNet>>
       ELSE /\ mic' = [mic EXCEPT !.pending = @ - 1]
            /\ Adopt(addMsg(Ctx, "assistant",
                            <<"Kunde inte starta mikrofon: ", "Permission denied">>))
    /\ UNCHANGED <<prefVars, ragVars, toggle, modelVars, sendBtn, ragResults,
                   topKInput, ttsToggle, speech, chatNet>>

\* mouseup or touchend on #micBtn: stopRecording
micMouseup ==
    /\ mic.pressed
    /\ mic' = [stopRecording(mic) EXCEPT !.pressed = FALSE]
    /\ UNCHANGED <<prefVars, ragVars, toggle, modelVars, history, sendBtn, ragResults,
                   topKInput, ttsToggle, speech, lastAssistantText, chatNet, ttsNet>>

\* mouseleave on #micBtn: if (recording) stopRecording(); a button held when
\* the pointer leaves is released outside #micBtn, which gets no mouseup
micMouseleave ==
    /\ mic.pressed \/ mic.recording
    /\ mic' = [(IF mic.recording THEN stopRecording(mic) ELSE mic) EXCEPT !.pressed = FALSE]
    /\ UNCHANGED <<prefVars, ragVars, toggle, modelVars, history, sendBtn, ragResults,
                   topKInput, ttsToggle, speech, lastAssistantText, chatNet, ttsNet>>

\* the stop event of the recorder i: sendAudioForTranscription up to its await
sendAudioForTranscription(i) ==
    /\ i \in DOMAIN mic.recorders
    /\ mic.recorders[i] = "stopping"
    /\ mic' = [mic EXCEPT !.recorders[i] = "inactive", !.transcribing = @ + 1]
    /\ UNCHANGED <<prefVars, ragVars, toggle, modelVars, history, sendBtn, ragResults,
                   topKInput, ttsToggle, speech, lastAssistantText, chatNet, ttsNet>>

\* sendAudioForTranscription after its await: the text goes into #prompt,
\* where the user sends it from; no text and a failure are told in #history
sendAudioForTranscriptionResume(resp) ==
    /\ mic.transcribing > 0
    /\ resp \in TranscribeAnswers
    /\ mic' = [mic EXCEPT !.transcribing = @ - 1]
    /\ IF resp.st = "ok"
       THEN IF resp.text # <<>>
            THEN UNCHANGED <<history, lastAssistantText, ttsNet>>
            ELSE Adopt(addMsg(Ctx, "assistant", <<"Ingen text hittades i inspelningen.">>))
       ELSE Adopt(addMsg(Ctx, "assistant",
                         <<"Transkriberingsfel: ">>
                         \o (IF resp.st = "net" THEN <<"Failed to fetch">>
                             ELSE <<"HTTP ">> \o Str(resp.status))))
    /\ UNCHANGED <<prefVars, ragVars, toggle, modelVars, sendBtn, ragResults,
                   topKInput, ttsToggle, speech, chatNet>>

---------------------------------------------------------------------------
(* Page load: the state after the page script has run to its end.          *)

\* the chat with nothing said and nothing in flight
ChatQuiet ==
    /\ history = <<>>
    /\ sendBtn = Ready
    /\ ragResults = renderRagResults(<<>>)
    /\ ttsToggle = FALSE
    /\ lastAssistantText = <<>>
    /\ chatNet = EmptyBag
    /\ ttsNet = EmptyBag
    /\ mic = MicIdle

ChatIdle == ChatQuiet /\ speech = "available"

\* getElementById('send') on the knowledge-base page, which has no chat
NoSend == [disabled |-> TRUE, label |-> ""]

\* the knowledge-base page: no chat, nothing said and nothing in flight
ChatAbsent ==
    /\ history = <<>>
    /\ sendBtn = NoSend
    /\ ragResults = renderRagResults(<<>>)
    /\ ttsToggle = FALSE
    /\ lastAssistantText = <<>>
    /\ chatNet = EmptyBag
    /\ ttsNet = EmptyBag
    /\ mic = MicIdle
    /\ speech = "available"

\* the value #ragTopK has in the page's markup
TopKMarkup == <<"3">>

\* what the user may have typed into #ragInput
RagTexts == { <<>>, <<" ">>, <<"h", "i">> }

\* the checked and disabled attributes #ragToggle has in the page's markup
ToggleMarkup == [checked : {FALSE}, disabled : BOOLEAN]

\* the page script leaves #ragToggle as the markup has it
ragToggleInitMarkup(markup, st, ok) == markup

\* #ragToggle after the page script restored the stored preference
ragToggleInit(markup, st, ok) ==
    LET stored == getStoredItem(st, ok, STORAGE_KEYS.ragEnabled)
    IN  [markup EXCEPT !.checked = IF stored # Null THEN stored = <<"1">> ELSE @]

\* the Document Registry at rest: the knowledge base docs has been listed and
\* rendered on a page loaded over the storage st
RagSettled(docs, st) ==
    /\ kb = docs
    /\ nextId = Len(docs) + 1
    /\ ragNet = EmptyBag
    /\ ragList = renderRagDocsList(<<>>, docs)
    /\ ragStatus = fetchRagDocsStatus("none", Len(docs), ChunkCount(docs))
    /\ \E m \in ToggleMarkup :
          toggle = renderRagDocsToggle(docs, ragToggleInit(m, st, storageOk), st, storageOk)
    /\ store = renderRagDocsStore(docs, st, storageOk)

\* the Document Registry of a page just loaded over the storage st: the
\* listing asked for at the end of the page script has not arrived yet
RagLoading(docs, st) ==
    /\ kb = docs
    /\ nextId = Len(docs) + 1
    /\ ragNet = SetToBag({RagReq("list", "none", 0)})
    /\ ragList = <<>>
    /\ ragStatus = fetchRagDocsStart("none", setRagStatus(<<>>, "info"))
    /\ \E m \in ToggleMarkup : toggle = ragToggleInit(m, st, storageOk)
    /\ store = st

\* the Model Selector at rest, offering the default model
ModelsIdle ==
    /\ modelNet = 0
    /\ sel = fetchModelsCatch(ClearedSelect)

InitRag ==
    /\ storageOk \in BOOLEAN
    /\ \E e \in (IF storageOk THEN {Null, <<"0">>, <<"1">>} ELSE {Null}) :
          store = Storage(Null, e, Null)
    /\ \E n \in 0..1 :
          /\ kb = [i \in 1..n |-> i]
          /\ nextId = n + 1
    /\ \E m \in ToggleMarkup : toggle = ragToggleInit(m, store, storageOk)
    /\ ragList = <<>>
    /\ ragStatus = fetchRagDocsStart("none", setRagStatus(<<>>, "info"))
    /\ ragNet = SetToBag({RagReq("list", "none", 0)})
    /\ ModelsIdle
    /\ ChatIdle
    /\ topKInput = TopKMarkup

NextRag ==
    \/ \E r \in BagToSet(ragNet) : ServerList(r)
    \/ \E r \in BagToSet(ragNet) : \E resp \in ListAnswers(r) : fetchRagDocsResume(r, resp)
    \/ \E r \in BagToSet(ragNet) : addRagDocResume(r)
    \/ \E r \in BagToSet(ragNet) : deleteRagDocResume(r)
    \/ \E r \in BagToSet(ragNet) : clearRagDocsResume(r)
    \/ \E text \in RagTexts : addRagDoc(text)
    \/ \E id \in 0..MaxDocs : deleteRagDoc(id)
    \/ \E c \in BOOLEAN : clearRagDocs(c)
    \/ ragToggleChange

SpecRag == InitRag /\ [][NextRag]_vars

\* what the user may have typed into #ragUrlInput
RagUrls == { <<>>, <<" ">>, <<"h", "t", "t", "p">> }

\* what the user may have chosen in #ragPdfInput
RagFiles == { Null, <<"a.pdf">> }

\* the knowledge-base page as its script leaves it: setRagStatus(''), then
\* fetchRagDocs up to its await.  rag.js uses neither the storage nor a
\* #ragToggle, which the page does not have
InitKb ==
    /\ storageOk = TRUE
    /\ store = Storage(Null, Null, Null)
    /\ \E n \in 0..1 :
          /\ kb = [i \in 1..n |-> i]
          /\ nextId = n + 1
    /\ toggle = [checked |-> FALSE, disabled |-> TRUE]
    /\ ragList = <<>>
    /\ ragStatus = fetchRagDocsStart("none", setRagStatus(<<>>, "info"))
    /\ ragNet = SetToBag({RagReq("list", "none", 0)})
    /\ ModelsIdle
    /\ ChatAbsent
    /\ topKInput = TopKMarkup

NextKb ==
    \/ \E r \in BagToSet(ragNet) : ServerList(r)
    \/ \E r \in BagToSet(ragNet) : \E resp \in ListAnswers(r) : fetchRagDocsKbResume(r, resp)
    \/ \E r \in BagToSet(ragNet) : addDocResume(r)
    \/ \E r \in BagToSet(ragNet) : deleteRagDocKbResume(r)
    \/ \E text \in RagTexts : addTextDoc(text)
    \/ \E url \in RagUrls : addUrlDoc(url)
    \/ \E file \in RagFiles : uploadPdf(file)
    \/ \E id \in 0..MaxDocs : deleteRagDocKb(id)
    \/ \E confirmed \in BOOLEAN : clearRagDocsKb(confirmed)
    \/ \E r \in BagToSet(ragNet) : clearRagDocsKbResume(r)

SpecKb == InitKb /\ [][NextKb]_vars

\* the most options #model offers at once
MaxOptions == 3 * MaxModelsInFlight

InitModels ==
    /\ storageOk \in BOOLEAN
    /\ \E m \in (IF storageOk THEN {Null, OtherModel} ELSE {Null}) :
          RagSettled(<<>>, Storage(m, Null, Null))
    /\ sel = ClearedSelect
    /\ modelNet = 1
    /\ ChatIdle
    /\ topKInput = TopKMarkup

NextModels ==
    \/ fetchModels
    \/ \E resp \in ModelAnswers : fetchModelsResume(resp)
    \/ \E i \in 1..MaxOptions : modelChange(i)

SpecModels == InitModels /\ [][NextModels]_vars

\* the keys the user may press in #prompt
Keys == {"Enter", "a"}

\* what the user may have typed into #prompt
ChatTexts == { <<>>, <<" ">>, <<"h", "e", "j", " ">> }

InitChat ==
    /\ storageOk \in BOOLEAN
    /\ \E docs \in {<<>>, <<1>>} :
       \E e \in (IF storageOk THEN {Null, <<"1">>} ELSE {Null}) :
          \/ RagSettled(docs, Storage(Null, e, Null))
          \/ RagLoading(docs, Storage(Null, e, Null))
    /\ ModelsIdle
    /\ ChatQuiet
    /\ speech \in {"available", "absent", "throws"}
    /\ topKInput = ragTopKInit(TopKMarkup, store, storageOk)

NextChat ==
    \/ \E text \in ChatTexts : sendClick(text)
    \/ \E ctrlKey, metaKey \in BOOLEAN, key \in Keys, text \in ChatTexts :
          promptKeydown(ctrlKey, metaKey, key, text)
    \/ \E r \in BagToSet(chatNet) : \E resp \in ChatAnswers(r) : sendPromptResume(r, resp)
    \/ ttsToggleClick
    \/ dlTtsClick
    \/ \E r \in BagToSet(ttsNet) : \E resp \in TtsAnswers : downloadServerTTSResume(r, resp)
    \/ ragToggleChange

SpecChat == InitChat /\ [][NextChat]_vars

\* the user opens one of the two pages, the chat or the knowledge base, and
\* works with what that page's script offers
InitPages == InitChat \/ InitKb

NextPages ==
    \/ sendBtn # NoSend /\ NextChat
    \/ sendBtn = NoSend /\ NextKb

SpecPages == InitPages /\ [][NextPages]_vars

\* what the user may have typed into #ragTopK
TopKTexts == { <<>>, <<"0">>, <<"7">>, <<"1", "5">>, <<"x">>, <<"-", "2">> }

InitTopK ==
    /\ storageOk \in BOOLEAN
    /\ \E k \in (IF storageOk THEN {Null, <<"7">>, <<"1", "5">>, <<"x">>} ELSE {Null}) :
          RagSettled(<<1>>, Storage(Null, <<"1">>, k))
    /\ ModelsIdle
    /\ ChatIdle
    /\ topKInput = ragTopKInit(TopKMarkup, store, storageOk)

NextTopK ==
    \/ \E value \in TopKTexts : ragTopKType(value)
    \/ ragTopKChange
    \/ \E text \in ChatTexts : sendClick(text)
    \/ \E ctrlKey, metaKey \in BOOLEAN, key \in Keys, text \in ChatTexts :
          promptKeydown(ctrlKey, metaKey, key, text)
    \/ \E r \in BagToSet(chatNet) : \E resp \in ChatAnswers(r) : sendPromptResume(r, resp)
    \/ ragToggleChange

SpecTopK == InitTopK /\ [][NextTopK]_vars

\* the top-K values an earlier visit, or another script, may have left stored
StoredTopKs == { Null, <<"0">>, <<"7">>, <<"5", "0">>, <<"x">> }

\* the page is loaded again over the stored preferences: the requests of the
\* page before are abandoned, the markup is parsed anew and the page script
\* runs to its end, calling fetchModels and fetchRagDocs
pageLoad ==
    /\ \E m \in ToggleMarkup : toggle' = ragToggleInit(m, store, storageOk)
    /\ topKInput' = ragTopKInit(TopKMarkup, store, storageOk)
    /\ sel' = ClearedSelect
    /\ modelNet' = 1
    /\ ragList' = <<>>
    /\ ragStatus' = fetchRagDocsStart("none", setRagStatus(<<>>, "info"))
    /\ ragNet' = SetToBag({RagReq("list", "none", 0)})
    /\ history' = <<>>
    /\ sendBtn' = Ready
    /\ ragResults' = renderRagResults(<<>>)
    /\ ttsToggle' = FALSE
    /\ lastAssistantText' = <<>>
    /\ chatNet' = EmptyBag
    /\ ttsNet' = EmptyBag
    /\ mic' = MicIdle
    /\ UNCHANGED <<prefVars, serverVars, speech>>

InitLoad ==
    /\ storageOk \in BOOLEAN
    /\ \E m \in {Null, OtherModel}, e \in {Null, <<"1">>}, k \in StoredTopKs :
          store = IF storageOk THEN Storage(m, e, k) ELSE Storage(Null, Null, Null)
    /\ \E n \in 0..1 :
          /\ kb = [i \in 1..n |-> i]
          /\ nextId = n + 1
    /\ \E m \in ToggleMarkup : toggle = ragToggleInit(m, store, storageOk)
    /\ ragList = <<>>
    /\ ragStatus = fetchRagDocsStart("none", setRagStatus(<<>>, "info"))
    /\ ragNet = SetToBag({RagReq("list", "none", 0)})
    /\ sel = ClearedSelect
    /\ modelNet = 1
    /\ ChatIdle
    /\ topKInput = ragTopKInit(TopKMarkup, store, storageOk)

NextLoad ==
    \/ pageLoad
    \/ \E r \in BagToSet(ragNet) : ServerList(r)
    \/ \E r \in BagToSet(ragNet) : \E resp \in ListAnswers(r) : fetchRagDocsResume(r, resp)
    \/ \E resp \in ModelAnswers : fetchModelsResume(resp)
    \/ \E i \in 1..MaxOptions : modelChange(i)
    \/ \E value \in TopKTexts : ragTopKType(value)
    \/ ragTopKChange
    \/ ragToggleChange

SpecLoad == InitLoad /\ [][NextLoad]_vars

\* the chat page with all its components at work: the page script has run,
\* the listing and the model list are on their way, and the user chats,
\* switches retrieval and reloads
InitOwner ==
    /\ storageOk \in BOOLEAN
    /\ \E docs \in {<<>>, <<1>>} :
       \E e \in (IF storageOk THEN {Null, <<"1">>} ELSE {Null}) :
          RagLoading(docs, Storage(Null, e, Null))
    /\ sel = ClearedSelect
    /\ modelNet = 1
    /\ ChatIdle
    /\ topKInput = ragTopKInit(TopKMarkup, store, storageOk)

NextOwner ==
    \/ pageLoad
    \/ \E r \in BagToSet(ragNet) : ServerList(r)
    \/ \E r \in BagToSet(ragNet) : \E resp \in ListAnswers(r) : fetchRagDocsResume(r, resp)
    \/ \E resp \in ModelAnswers : fetchModelsResume(resp)
    \/ \E text \in ChatTexts : sendClick(text)
    \/ \E r \in BagToSet(chatNet) : \E resp \in ChatAnswers(r) : sendPromptResume(r, resp)
    \/ ragToggleChange

SpecOwner == InitOwner /\ [][NextOwner]_vars

\* the most items a rendered retrieval context has
MaxItems == 3

RECURSIVE SeqsUpTo(_, _)
\* the sequences over S of length at most n
SeqsUpTo(S, n) ==
    IF n = 0 THEN { <<>> }
    ELSE LET shorter == SeqsUpTo(S, n - 1)
         IN  shorter \cup { Append(q, x) : q \in shorter, x \in S }

\* what renderRagResults may be called with: no array, or an array of items
RenderInputs == {Null} \cup SeqsUpTo(RagItems, MaxItems)

\* renderRagResults is called with items on the page as it stands
renderRagResultsCall(items) ==
    /\ ragResults' = renderRagResultsOn(ragResults, items)
    /\ UNCHANGED <<prefVars, ragVars, toggle, modelVars, history, sendBtn, topKInput,
                   ttsToggle, speech, mic, lastAssistantText, chatNet, ttsNet>>

\* the chat page at rest, its Retrieval Display showing some context
InitRender ==
    /\ storageOk \in BOOLEAN
    /\ RagSettled(<<>>, Storage(Null, Null, Null))
    /\ ModelsIdle
    /\ history = <<>>
    /\ sendBtn = Ready
    /\ ragResults \in { renderRagResults(items) : items \in SeqsUpTo(RagItems, 1) }
    /\ ttsToggle = FALSE
    /\ lastAssistantText = <<>>
    /\ chatNet = EmptyBag
    /\ ttsNet = EmptyBag
    /\ mic = MicIdle
    /\ speech \in {"available", "absent", "throws"}
    /\ topKInput = TopKMarkup

NextRender == \E items \in RenderInputs : renderRagResultsCall(items)

SpecRender == InitRender /\ [][NextRender]_vars

\* the most items a rendered context of scored items has
MaxScored == 2

\* the Retrieval Display rendering items of every kind of score
ScoreInputs == SeqsUpTo(RagItems \cup ScoredItems, MaxScored)

InitScore ==
    /\ storageOk = TRUE
    /\ RagSettled(<<>>, Storage(Null, Null, Null))
    /\ ModelsIdle
    /\ ChatIdle
    /\ topKInput = TopKMarkup

NextScore == \E items \in ScoreInputs : renderRagResultsCall(items)

SpecScore == InitScore /\ [][NextScore]_vars

---------------------------------------------------------------------------
(* Claims about the Document Registry, checked under SpecRag.              *)

\* the step renders the successfully fetched listing r
RendersListing(r) == r.kind = "list" /\ r.st = "ok" /\ fetchRagDocsResume(r, r)

\* the step handles the failure f of the listing request r
FailsListing(r, f) == r.kind = "list" /\ f.st \in {"http", "net"} /\ fetchRagDocsResume(r, f)

ToggleOff == [checked |-> FALSE, disabled |-> TRUE]

\* C1, as stated: every render of a successfully fetched listing with zero
\* documents leaves the toggle disabled and unchecked and the persisted
\* RAG-enabled preference equal to "0".
C1_ToggleDisableOriginal ==
    [][\A r \in BagToSet(ragNet) :
          (RendersListing(r) /\ Len(r.docs) = 0)
          => /\ toggle' = ToggleOff
             /\ store'[STORAGE_KEYS.ragEnabled] = <<"0">>]_vars

\* C1, amended: every render of a successfully fetched listing with zero
\* documents leaves the toggle disabled and unchecked; the persisted RAG-enabled
\* preference is "0" afterwards when the storage takes the write, and is left as
\* it was when the storage is unavailable (the failed write is swallowed).
\* Until the next listing is rendered this stays so: a toggle that is off stays
\* off and the persisted preference is not written.
C1_ToggleDisable ==
    [][/\ \A r \in BagToSet(ragNet) :
             (RendersListing(r) /\ Len(r.docs) = 0)
             => /\ toggle' = ToggleOff
                /\ storageOk => store'[STORAGE_KEYS.ragEnabled] = <<"0">>
                /\ ~storageOk => store' = store
       /\ (toggle = ToggleOff
           /\ (toggle' # ToggleOff
               \/ store'[STORAGE_KEYS.ragEnabled] # store[STORAGE_KEYS.ragEnabled]))
             => \E r \in BagToSet(ragNet) : RendersListing(r)]_vars

\* an empty listing has been rendered over a stored "1": the toggle is off and
\* "0" is persisted
C1_Witness ==
    /\ ragStatus = setRagStatus(<<"Ingen text har lagts till annu.">>, "info")
    /\ toggle = ToggleOff
    /\ storageOk
    /\ store[STORAGE_KEYS.ragEnabled] = <<"0">>
    /\ BagCardinality(ragNet) = 0

\* C2: every render of a successfully fetched listing with at least one
\* document enables the toggle and restores its checked state from the stored
\* preference: checked iff the Preference Store returns "1", left as it was when
\* it returns nothing; the render writes no preference (never forces it on).
C2_ToggleRestore ==
    [][\A r \in BagToSet(ragNet) :
          (RendersListing(r) /\ Len(r.docs) > 0)
          => LET stored == getStoredItem(store, storageOk, STORAGE_KEYS.ragEnabled)
             IN  /\ ~toggle'.disabled
                 /\ stored # Null => (toggle'.checked <=> stored = <<"1">>)
                 /\ stored = Null => toggle'.checked = toggle.checked
                 /\ store' = store]_vars

\* a non-empty listing is on display, with the toggle enabled and checked from
\* a stored "1"
C2_Witness ==
    /\ Len(ragList) > 0
    /\ ragStatus.type = "info"
    /\ ~toggle.disabled
    /\ toggle.checked
    /\ getStoredItem(store, storageOk, STORAGE_KEYS.ragEnabled) = <<"1">>

C4_ListFailure ==
    [][\A r \in BagToSet(ragNet) : \A f \in ListAnswers(r) :
          FailsListing(r, f)
          => /\ ragList' = <<>>
             /\ toggle' = ToggleOff
             /\ ragStatus'.type = "error"
             /\ ragStatus'.text = <<"Kunde inte hamta kunskapsbasen: ">>
                    \o (IF f.st = "net" THEN <<"Failed to fetch">>
                        ELSE <<"HTTP ">> \o Str(f.status))
             /\ ragNet' = ragNet (-) SetToBag({r})
             /\ store' = store]_vars

\* a listing failed: the list is empty and the toggle off although the
\* knowledge base holds a document
C4_Witness ==
    /\ ragStatus.type = "error"
    /\ Head(ragStatus.text) = "Kunde inte hamta kunskapsbasen: "
    /\ ragList = <<>>
    /\ toggle = ToggleOff
    /\ Len(kb) > 0

\* C6: last writer wins for the document list.  Every listing response that
\* arrives replaces the rendered list and the toggle's availability by its own
\* (nothing is left of an earlier response), and nothing but an arriving listing
\* response changes them: after all have arrived, the display is that of the
\* last one.
C6_ListLastWriterWins ==
    [][/\ \A r \in BagToSet(ragNet) : \A resp \in ListAnswers(r) :
             fetchRagDocsResume(r, resp)
             => /\ ragList' = IF resp.st = "ok" THEN resp.docs ELSE <<>>
                /\ toggle'.disabled <=> (resp.st # "ok" \/ Len(resp.docs) = 0)
       /\ (ragList' # ragList \/ toggle'.disabled # toggle.disabled)
             => \E r \in BagToSet(ragNet) : \E resp \in ListAnswers(r) :
                   fetchRagDocsResume(r, resp)]_vars

\* two listings were in flight and the older one, taken before a document was
\* added, arrived last: it is the one on display
C6_Witness ==
    /\ BagCardinality(ragNet) = 0
    /\ ragStatus = setRagStatus(<<"Ingen text har lagts till annu.">>, "info")
    /\ ragList = <<>>
    /\ Len(kb) > 0

---------------------------------------------------------------------------
(* Claims about the Model Selector, checked under SpecModels.              *)

\* what #model offers when built from the answer resp alone
OptionsOf(resp) ==
    IF resp.st = "ok"
    THEN fetchModelsOptions(resp.models, Preferred(store, storageOk))
    ELSE fetchModelsCatch(ClearedSelect).options

\* C5: last writer wins for the model refresh.  When the last response still
\* awaited is processed (after overlapping fetchModels calls, every response
\* has then been processed), the offered options are exactly those derived from
\* that response: nothing of an earlier response remains and no model is
\* offered twice.
C5_ModelsLastWriterWins ==
    [][\A resp \in ModelAnswers :
          (modelNet = 1 /\ fetchModelsResume(resp))
          => /\ sel'.options = OptionsOf(resp)
             /\ \A i, j \in DOMAIN sel'.options :
                   sel'.options[i].value = sel'.options[j].value => i = j]_vars

---------------------------------------------------------------------------
(* Claims about the Chat Session Controller, checked under SpecChat and    *)
(* SpecTopK.                                                               *)

\* C7: busy indication.  In every reachable state in which a chat request
\* awaits its response, #send is disabled and relabeled, also when sends are
\* started with Ctrl/Cmd+Enter while an earlier one is in flight.
C7_BusyIndication == BagCardinality(chatNet) > 0 => sendBtn = Busy

\* the assistant message sendPrompt shows for the answer resp
Reply(resp) ==
    IF resp.st = "ok" THEN resp.content
    ELSE <<"Fel: ">> \o ChatErrorMessage(resp)
         \o <<"\nTips: sakerstall att Ollama kor och att modellen ar hamtad.">>

\* the retrieval display sendPrompt leaves for the answer resp of the request r
Display(r, resp) ==
    IF resp.st = "ok" /\ resp.ctx # Null THEN renderRagResults(resp.ctx)
    ELSE renderRagResults(<<>>)

\* C8: a failure inside the speech hook of addMsg never changes the history or
\* the retrieval display.  When a chat answer is processed, the history gains
\* exactly the assistant message for it and the display is the one for it,
\* whatever the hook does; and when a speech request settles, even failing,
\* the history and the display stay as they are.
C8_HookFailureIsolated ==
    [][/\ \A r \in BagToSet(chatNet) : \A resp \in ChatAnswers(r) :
             sendPromptResume(r, resp)
             => /\ history' = origAddMsg(history, "assistant", Reply(resp))
                /\ ragResults' = Display(r, resp)
       /\ \A r \in BagToSet(ttsNet) : \A resp \in TtsAnswers :
             downloadServerTTSResume(r, resp)
             => /\ history' = history
                /\ ragResults' = ragResults]_vars

\* C9: no automatic retries.  A request that fails is gone and issues no other
\* request: after a speech request fails, the speech requests in flight are the
\* earlier ones less the failed one.
C9_NoAutomaticRetry ==
    [][\A r \in BagToSet(ttsNet) : \A resp \in TtsAnswers :
          (resp.st # "ok" /\ downloadServerTTSResume(r, resp))
          => ttsNet' = ttsNet (-) SetToBag({r})]_vars

\* the step is a run of sendPrompt, from the button or the keyboard
Sends == \E text \in ChatTexts : sendPrompt(text)

\* C10, as stated: on every send the top-K read from the input is clamped to
\* 1..10 (3 when absent or invalid), written back to the input and persisted:
\* after the send the stored top-K is the clamped value.
C10_TopKPersistedOnSend ==
    [][Sends
       => LET k == sendPromptTopK(topKInput)
          IN  /\ k \in 1..10
              /\ topKInput' = Str(k)
              /\ store'[STORAGE_KEYS.ragTopK] = Str(k)]_vars

\* C10, amended: on every send the top-K read from the input is clamped to
\* 1..10 (3 when absent or invalid), written back to the input and used for the
\* request; the send writes nothing to the Preference Store.  The stored top-K
\* changes only in the change handler of the input, which stores the clamped
\* value it writes back.
C10_TopKClampOnSend ==
    [][/\ Sends
          => LET p == ParseInt(topKInput)
                 k == ParseInt(topKInput').val
             IN  /\ ~ParseInt(topKInput').nan
                 /\ topKInput' = Str(k)
                 /\ k \in 1..10
                 /\ (~p.nan /\ p.val \in 1..10) => k = p.val
                 /\ (~p.nan /\ p.val > 10) => k = 10
                 /\ (p.nan \/ p.val < 1) => k = 3
                 /\ store' = store
                 /\ chatNet' # chatNet
                    => \E q \in BagToSet(chatNet') :
                          /\ chatNet' = chatNet (+) SetToBag({q})
                          /\ q.useRag => q.topK = k
       /\ store'[STORAGE_KEYS.ragTopK] # store[STORAGE_KEYS.ragTopK]
          => /\ ragTopKChange
             /\ store'[STORAGE_KEYS.ragTopK] = topKInput'
             /\ ParseInt(topKInput').val \in 1..10]_vars

\* "15" was typed and a message sent with retrieval on: the input reads "10",
\* the request carries 10 and nothing is stored
C10_Witness ==
    /\ storageOk
    /\ store[STORAGE_KEYS.ragTopK] = Null
    /\ topKInput = <<"1", "0">>
    /\ \E q \in BagToSet(chatNet) : q.useRag /\ q.topK = 10

---------------------------------------------------------------------------
(* Claims about the page load, checked under SpecLoad.                     *)

\* the stored top-K as the page script parses it
StoredTopK == ParseInt(LET stored == getStoredItem(store, storageOk, STORAGE_KEYS.ragTopK)
                       IN  IF Falsy(stored) THEN <<>> ELSE stored)

\* C11 as stated: at page load a stored top-K that is missing, non-numeric or
\* not an integer in [1,10] (a stored 50 or 0) gives the default 3 as the
\* value applied to the next chat request.
C11_StoredTopKFallbackOriginal ==
    [][pageLoad /\ (StoredTopK.nan \/ StoredTopK.val < 1 \/ StoredTopK.val > 10)
       => sendPromptTopK(topKInput') = 3]_vars

\* C11: at page load a stored top-K that is missing, non-numeric or below 1
\* leaves #ragTopK at its markup value, applied as the default 3; a stored
\* integer of 1 or more is restored as min(10, stored), so a stored 50 is
\* applied as 10; the load itself stores nothing.
C11_StoredTopKFallback ==
    [][pageLoad
       => /\ IF StoredTopK.nan \/ StoredTopK.val < 1
             THEN topKInput' = TopKMarkup /\ sendPromptTopK(topKInput') = 3
             ELSE LET k == IF StoredTopK.val > 10 THEN 10 ELSE StoredTopK.val
                  IN  topKInput' = Str(k) /\ sendPromptTopK(topKInput') = k
          /\ store' = store]_vars

\* a page loaded again (the model was chosen on the page before) over a
\* stored top-K of 50 shows 10
C11_Witness ==
    /\ store[STORAGE_KEYS.model] = DEFAULT_MODEL
    /\ store[STORAGE_KEYS.ragTopK] = <<"5", "0">>
    /\ modelNet = 1
    /\ sel = ClearedSelect
    /\ topKInput = <<"1", "0">>

\* C12: loading never re-persists. A page load and the settling of
\* fetchModels, with models or with a failure, leave the Preference Store as
\* it is; the selected-model key changes only in the change handler of
\* #model and the top-K key only in the change handler of #ragTopK.
C12_LoadNeverPersists ==
    [][/\ pageLoad => store' = store
       /\ modelNet' = modelNet - 1 => store' = store
       /\ store'[STORAGE_KEYS.model] # store[STORAGE_KEYS.model]
             => \E i \in 1..MaxOptions : modelChange(i)
       /\ store'[STORAGE_KEYS.ragTopK] # store[STORAGE_KEYS.ragTopK]
             => ragTopKChange]_vars

\* a page loaded over a stored model the endpoint did not answer for and a
\* stored top-K of 50: fetchModels has failed, the default model and 10 are
\* shown, the stored values are what they were
C12_Witness ==
    /\ store[STORAGE_KEYS.model] = OtherModel
    /\ store[STORAGE_KEYS.ragTopK] = <<"5", "0">>
    /\ modelNet = 0
    /\ sel = fetchModelsCatch(ClearedSelect)
    /\ topKInput = <<"1", "0">>

---------------------------------------------------------------------------
(* Claims about the top-K input, checked under SpecTopK.                    *)

\* k is the top-K the clamping rule allows for the text value of #ragTopK
TopKRule(value, k) ==
    LET v == ParseInt(value)
        atLeast1 == IF v.val > 1 THEN v.val ELSE 1
    IN  /\ ~v.nan /\ v.val >= 1 => k = (IF atLeast1 < 10 THEN atLeast1 ELSE 10)
        /\ v.nan => k = 3
        /\ k \in 1..10

\* the chat requests the step issues
Issued == { r \in BagToSet(chatNet') : CopiesIn(r, chatNet') > CopiesIn(r, chatNet) }

\* C13: top-K clamping. The top-K a send applies to its chat request and the
\* top-K the change handler of #ragTopK stores are min(10, max(1, v)) when
\* the input parses to an integer v >= 1, the default 3 when the input is
\* empty or not a number, and always an integer in [1,10].
C13_TopKClamping ==
    [][/\ ragTopKChange
             => \E k \in 1..10 :
                   /\ TopKRule(topKInput, k)
                   /\ topKInput' = Str(k)
                   /\ storageOk => store'[STORAGE_KEYS.ragTopK] = Str(k)
       /\ Sends
             => \E k \in 1..10 :
                   /\ TopKRule(topKInput, k)
                   /\ topKInput' = Str(k)
                   /\ \A r \in Issued : r.useRag => r.topK = k]_vars

\* 15 was typed into #ragTopK: the change handler has stored 10, and a chat
\* request asking for retrieval carries 10
C13_Witness ==
    /\ store[STORAGE_KEYS.ragTopK] = <<"1", "0">>
    /\ topKInput = <<"1", "0">>
    /\ \E r \in BagToSet(chatNet) : r.useRag /\ r.topK = 10

---------------------------------------------------------------------------
(* Claims about sending, checked under SpecChat.                           *)

\* C14: a chat request carries the retrieval parameters (use_rag true and
\* rag_top_k) exactly when, as it is sent, #ragToggle is not disabled and is
\* checked; otherwise its body has neither member; a rag_top_k it carries is
\* an integer in [1,10].
C14_RetrievalParameters ==
    [][\A r \in Issued :
          /\ r.useRag <=> (~toggle.disabled /\ toggle.checked)
          /\ r.useRag => r.topK \in 1..10
          /\ ~r.useRag => r.topK = 0]_vars

\* a request sent while #ragToggle was checked but still disabled, the first
\* listing not having arrived: it carries no retrieval parameters
C14_Witness ==
    /\ toggle.disabled /\ toggle.checked
    /\ \E r \in BagToSet(chatNet) : ~r.useRag /\ r.topK = 0

\* C15: after a chat response is processed the Retrieval Display shows, on
\* success, the response's retrieval context (nothing when it has none) if
\* retrieval was requested or the response carries one, and is cleared
\* otherwise; on failure it is cleared.
C15_DisplayAfterResponse ==
    [][\A r \in BagToSet(chatNet) : \A resp \in ChatAnswers(r) :
          sendPromptResume(r, resp)
          => ragResults' =
                IF resp.st = "ok" /\ (r.useRag \/ resp.ctx # Null)
                THEN renderRagResults(IF resp.ctx = Null THEN <<>> ELSE resp.ctx)
                ELSE renderRagResults(<<>>)]_vars

\* C16: optimistic clear.  From the moment a send issues its chat request
\* until the response to that request has been processed, the retrieval
\* results are hidden: no state with a chat request in flight shows any.
C16_OptimisticClear == BagCardinality(chatNet) > 0 => ragResults.hidden

\* C17: every send with non-empty trimmed text appends exactly one user
\* message and issues one chat request; when that request resolves exactly
\* one assistant message is appended for it: the response's content (the
\* placeholder when it has none) on success, the error description and the
\* troubleshooting hint on failure.
C17_OneMessagePerSendAndResponse ==
    [][/\ \A text \in ChatTexts :
             (Trim(text) # <<>> /\ sendPrompt(text))
             => /\ history' = Append(history, [role |-> "user", text |-> Trim(text)])
                /\ BagCardinality(chatNet') = BagCardinality(chatNet) + 1
       /\ \A r \in BagToSet(chatNet) : \A resp \in ChatAnswers(r) :
             sendPromptResume(r, resp)
             => history' = Append(history,
                   [role |-> "assistant",
                    text |-> IF resp.st # "ok"
                             THEN <<"Fel: ">> \o ChatErrorMessage(resp) \o
                                  <<"\nTips: sakerstall att Ollama kor och att modellen ar hamtad.">>
                             ELSE IF Falsy(resp.content) THEN <<"[Inget svar]">>
                             ELSE resp.content])]_vars

---------------------------------------------------------------------------
(* Claims about a send with nothing to send, checked under SpecTopK.       *)

\* the text is empty or white space only
Blank(text) == \A i \in 1..Len(text) : IsSpace(text[i])

\* the step is a run of sendPrompt with a blank #prompt
BlankSend == \E text \in ChatTexts : Blank(text) /\ sendPrompt(text)

\* C18: a send whose text is empty or white space only appends no message to
\* the history and issues no network call.
C18_EmptySend ==
    [][BlankSend
       => /\ history' = history
          /\ chatNet' = chatNet
          /\ ttsNet' = ttsNet
          /\ ragNet' = ragNet
          /\ modelNet' = modelNet]_vars

\* a blank send has run: with nothing stored, 10 in #ragTopK is the 15 the
\* user typed as the send wrote it back; no message, no request
C18_Witness ==
    /\ storageOk
    /\ store[STORAGE_KEYS.ragTopK] = Null
    /\ topKInput = <<"1", "0">>
    /\ history = <<>>
    /\ chatNet = EmptyBag

\* C19: a send whose trimmed text is empty is a no-op: it leaves every piece
\* of client state as it is, the value of the top-K input, #send, the
\* retrieval display and the Preference Store included.
C19_EmptySendNoOp == [][BlankSend => UNCHANGED vars]_vars

---------------------------------------------------------------------------
(* Claims about the knowledge-base page, checked under SpecKb.             *)

\* the step issues no request and changes neither the knowledge base, the
\* rendered document list nor the toggle
NothingAsked ==
    /\ ragNet' = ragNet
    /\ kb' = kb
    /\ ragList' = ragList
    /\ toggle' = toggle

\* C20: local validation.  Adding a text that is empty once trimmed, adding
\* an empty URL, adding a PDF with no file chosen and deleting with a falsy
\* id issue no network request and leave the rendered document list and the
\* toggle as they are; the three add operations show a validation status of
\* error severity.
C20_LocalValidation ==
    [][/\ \A text \in RagTexts :
             (Blank(text) /\ addTextDoc(text))
             => NothingAsked /\ ragStatus'.type = "error" /\ ragStatus'.text # <<>>
       /\ \A url \in RagUrls :
             (Blank(url) /\ addUrlDoc(url))
             => NothingAsked /\ ragStatus'.type = "error" /\ ragStatus'.text # <<>>
       /\ uploadPdf(Null)
             => NothingAsked /\ ragStatus'.type = "error" /\ ragStatus'.text # <<>>
       /\ deleteRagDocKb(0)
             => NothingAsked /\ ragStatus' = ragStatus]_vars

\* the listing of one document is on display, nothing is in flight, and the
\* status is the validation error of an upload without a file
C20_Witness ==
    /\ ragList = <<1>>
    /\ ragNet = EmptyBag
    /\ ragStatus.type = "error"
    /\ ragStatus.text = <<"Valj en PDF-fil forst.">>

---------------------------------------------------------------------------
(* Further claims about the Document Registry, checked under SpecRag.      *)

\* the step settles the request r without a listing being asked for: the
\* operation failed
SettlesFailed(r) == ragNet' = ragNet (-) SetToBag({r})

\* C21: when the DELETE of a single document fails, the rendered document
\* list with the chunk counts it shows, the knowledge base, the toggle and
\* the stored preferences stay exactly as they were; only an error status is
\* shown, with the server's detail, the HTTP status or the transport error.
C21_FailedDeleteKeepsList ==
    [][\A r \in BagToSet(ragNet) :
          (r.kind = "delete" /\ SettlesFailed(r) /\ deleteRagDocResume(r))
          => /\ ragList' = ragList
             /\ toggle' = toggle
             /\ store' = store
             /\ kb' = kb
             /\ ragStatus'.type = "error"
             /\ ragStatus'.text \in
                   { <<"Kunde inte ta bort text: ">> \o m :
                        m \in { <<"Failed to fetch">>, <<"detail from server">>,
                                <<"HTTP ", "4", "0", "4">> } }]_vars

\* a delete has failed: its error is the status, the document is still
\* listed and retrieval is still available
C21_Witness ==
    /\ ragStatus.type = "error"
    /\ Head(ragStatus.text) = "Kunde inte ta bort text: "
    /\ ragList = <<1>>
    /\ ~toggle.disabled
    /\ ragNet = EmptyBag

\* the requests to the knowledge-base endpoints the step issues
IssuedRag == { r \in BagToSet(ragNet') : CopiesIn(r, ragNet') > CopiesIn(r, ragNet) }

\* C22: clearRagDocs issues the DELETE of the whole knowledge base only after
\* the user has confirmed.  When the confirmation is declined no request is
\* issued and the document list, the status, the toggle, the stored
\* preferences and the knowledge base are unchanged; a step that issues the
\* DELETE is a confirmed click.
C22_ClearNeedsConfirmation ==
    [][/\ clearRagDocs(FALSE)
             => UNCHANGED <<ragNet, ragList, ragStatus, toggle, store, kb>>
       /\ \A r \in IssuedRag : r.kind = "clear" => clearRagDocs(TRUE)]_vars

\* the user has confirmed: the DELETE is on its way, the knowledge base and
\* the list still hold the document
C22_Witness ==
    /\ \E r \in BagToSet(ragNet) : r.kind = "clear"
    /\ kb = <<1>>
    /\ ragList = <<1>>

---------------------------------------------------------------------------
(* Claims about the Model Selector, checked under SpecLoad.                *)

\* the preferred model: the stored preference, else the configured default
PreferredModel ==
    LET stored == IF storageOk THEN store[STORAGE_KEYS.model] ELSE Null
    IN  IF stored = Null \/ stored = <<>> THEN DEFAULT_MODEL ELSE stored

\* the step is the one fetchModels call under way settling with resp, the
\* select being as that call emptied it
SingleLoad(resp) ==
    /\ modelNet = 1
    /\ sel = ClearedSelect
    /\ fetchModelsResume(resp)

\* C23: model fallback chain.  After a single fetchModels call completes
\* successfully: an empty model list gives exactly one option, valued the
\* preferred model and labeled not installed; a list of N models without
\* the preferred one gives the N models and one more option, valued the
\* preferred model and labeled default; a list with the preferred model
\* gives exactly the N models; the selection is always the preferred model.
C23_ModelFallbackChain ==
    [][\A resp \in ModelAnswers :
          (resp.st = "ok" /\ SingleLoad(resp))
          => LET N == Len(resp.models)
                 opts == sel'.options
             IN  /\ sel'.value = PreferredModel
                 /\ \A i \in 1..N :
                       i <= Len(opts) /\ opts[i] = [value |-> resp.models[i],
                                                    text |-> resp.models[i]]
                 /\ IF N = 0
                    THEN opts = << [value |-> PreferredModel,
                                    text |-> PreferredModel \o <<" (ej installerad an)">>] >>
                    ELSE IF \A i \in 1..N : resp.models[i] # PreferredModel
                    THEN /\ Len(opts) = N + 1
                         /\ opts[N + 1] = [value |-> PreferredModel,
                                           text |-> PreferredModel \o <<" (standard)">>]
                    ELSE Len(opts) = N]_vars

\* a list without the preferred model: one listed model and the default,
\* labeled default and selected
C23_Witness ==
    /\ modelNet = 0
    /\ sel = [options |-> << [value |-> OtherModel, text |-> OtherModel],
                             [value |-> DEFAULT_MODEL,
                              text |-> DEFAULT_MODEL \o <<" (standard)">>] >>,
              value |-> DEFAULT_MODEL]

\* C24: when fetchModels fails (fetch rejects or the body does not parse),
\* exactly one option is offered afterwards, valued the configured default
\* model and labeled endpoint unavailable, and it is the selection.
C24_ModelsFailureFallback ==
    [][\A resp \in ModelAnswers :
          (resp.st = "fail" /\ fetchModelsResume(resp))
          => sel' = [options |-> << [value |-> DEFAULT_MODEL,
                                     text |-> DEFAULT_MODEL
                                              \o <<" (endpoint otillganglig)">>] >>,
                     value |-> DEFAULT_MODEL]]_vars

\* the step is the user picking an option of #model
ModelChanges == \E i \in 1..MaxOptions : modelChange(i)

\* the model a page loaded over the storage st would select after a
\* successful fetchModels
SelectedAfterReload(st) ==
    LET stored == IF storageOk THEN st[STORAGE_KEYS.model] ELSE Null
    IN  IF stored = Null \/ stored = <<>> THEN DEFAULT_MODEL ELSE stored

\* C25 as stated: a model the user selects is persisted at once and survives
\* a reload: a page loaded after the selection selects that model once
\* fetchModels has succeeded.
C25_SelectionSurvivesReloadOriginal ==
    [][ModelChanges => SelectedAfterReload(store') = sel'.value]_vars

\* C25: when the browser storage takes the write, a model the user selects
\* is stored in the same step; a page load leaves the stored model alone;
\* and a successful fetchModels selects the stored model, offering it also
\* when the returned list does not hold it.  With the storage unavailable
\* the selection is not stored and a reload selects the configured default.
C25_SelectionSurvivesReload ==
    [][/\ ModelChanges
             => IF storageOk
                THEN /\ store'[STORAGE_KEYS.model] = sel'.value
                     /\ SelectedAfterReload(store') = sel'.value
                ELSE store' = store /\ SelectedAfterReload(store') = DEFAULT_MODEL
       /\ pageLoad => store'[STORAGE_KEYS.model] = store[STORAGE_KEYS.model]
       /\ \A resp \in ModelAnswers :
             (resp.st = "ok" /\ fetchModelsResume(resp))
             => /\ sel'.value = SelectedAfterReload(store)
                /\ \E i \in DOMAIN sel'.options : sel'.options[i].value = sel'.value]_vars

\* the user selected the default model on an earlier page; the page loaded
\* since got an empty model list and offers and selects the stored model
C25_Witness ==
    /\ store[STORAGE_KEYS.model] = DEFAULT_MODEL
    /\ modelNet = 0
    /\ sel = [options |-> << [value |-> DEFAULT_MODEL,
                              text |-> DEFAULT_MODEL \o <<" (ej installerad an)">>] >>,
              value |-> DEFAULT_MODEL]

---------------------------------------------------------------------------
(* Claims about the controls after a failure, checked under SpecPages.     *)

\* the step takes the chat request r out of flight
ChatSettles(r) == BagIn(r, chatNet) /\ chatNet' = chatNet (-) SetToBag({r})

\* the step ends the add operation kind: its request failed, or the listing
\* it awaits has settled
AddFinishes(kind) ==
    \E r \in BagToSet(ragNet) :
        /\ r.kind = kind \/ (r.kind = "list" /\ r.ov = kind)
        /\ ragNet' = ragNet (-) SetToBag({r})

---------------------------------------------------------------------------
(* Claims about the knowledge-base page after an error, checked under      *)
(* SpecKb.                                                                 *)

AddKinds == {"addText", "addUrl", "addPdf"}

\* the step is a Document Registry operation failing other than a listing:
\* an add with nothing to add, or an add, delete or clear-all request
\* answered by a failure
KbFailure ==
    \/ \E kind \in AddKinds : ~AddBtnDisabled(kind) /\ addDocStart(kind, FALSE)
    \/ \E r \in BagToSet(ragNet) :
          r.kind \in AddKinds \cup {"delete", "clear"} /\ SettlesFailed(r)

\* what a failure other than of a listing leaves of the controls: the rows
\* with their remove buttons, #clearRag, and no add button newly disabled
ControlsKept ==
    /\ ragList' = ragList
    /\ ClearBtnDisabled' <=> ClearBtnDisabled
    /\ \A kind \in AddKinds : AddBtnDisabled(kind)' => AddBtnDisabled(kind)

\* C28 as stated: after any failed Document Registry operation, a failed
\* listing included, add, delete and clear-all can be invoked as they could
\* have been without the error: after a listing the server had answered but
\* that failed on its way, every listed document has its remove button and
\* clear-all is enabled when there are documents.
C28_ErrorsNeverBlockOriginal ==
    [][/\ KbFailure => ControlsKept
       /\ \A r \in BagToSet(ragNet) : \A resp \in ListAnswers(r) :
             (r.st = "ok" /\ resp.st # "ok" /\ fetchRagDocsKbResume(r, resp))
             => /\ Elems(r.docs) \subseteq Elems(ragList')
                /\ r.docs # <<>> => ~ClearBtnDisabled'
                /\ \A kind \in AddKinds : AddBtnDisabled(kind)' => AddBtnDisabled(kind)]_vars

\* C28: a validation error, a failed add, a failed delete and a failed
\* clear-all leave every control as it was, so each operation can be invoked
\* as before.  A failed listing empties the rendered list, which takes the
\* remove buttons away, and disables clear-all; the add operations stay
\* available.
C28_ErrorsNeverBlock ==
    [][/\ KbFailure => ControlsKept
       /\ \A r \in BagToSet(ragNet) : \A resp \in ListAnswers(r) :
             (resp.st # "ok" /\ fetchRagDocsKbResume(r, resp))
             => /\ ragList' = <<>>
                /\ ClearBtnDisabled'
                /\ \A kind \in AddKinds : AddBtnDisabled(kind)' => AddBtnDisabled(kind)]_vars

\* the knowledge base holds a document, its listing has failed, and after
\* that the user has tried to add an empty text: nothing is listed, nothing
\* is in flight and the add buttons are enabled
C28_Witness ==
    /\ sendBtn = NoSend
    /\ kb = <<1>>
    /\ ragList = <<>>
    /\ ragNet = EmptyBag
    /\ ragStatus = setRagStatus(AddTexts("addText").invalid, "error")

---------------------------------------------------------------------------
(* Claims about who writes the rendered list and the toggle, checked       *)
(* under SpecOwner.                                                        *)

\* the step is the fetch cycle of the Document Registry settling: the
\* snapshot is rendered, or the list-failure path runs
FetchCycle ==
    \E r \in BagToSet(ragNet) : \E resp \in ListAnswers(r) : fetchRagDocsResume(r, resp)

\* the step shows the Chat Session Controller, the Model Selector or the
\* Retrieval Display at work on a page that stays
OthersAtWork ==
    /\ ~pageLoad
    /\ \/ chatNet' # chatNet
       \/ history' # history
       \/ sendBtn' # sendBtn
       \/ ragResults' # ragResults
       \/ sel' # sel
       \/ modelNet' # modelNet

\* C29 as stated: the rendered list and the toggle's checked and disabled
\* state are written by the fetch cycle only.  The user's own click on the
\* checkbox is input, not a write of a component, and a page load replaces
\* the document: it may show the toggle as the markup has it, but no script
\* outside the fetch cycle sets it.
C29_StateOwnershipOriginal ==
    [][/\ (ragList' # ragList \/ toggle' # toggle)
          => \/ FetchCycle
             \/ ragToggleChange
             \/ pageLoad /\ toggle' \in ToggleMarkup
       /\ OthersAtWork => UNCHANGED <<ragList, toggle>>]_vars

\* C29: the rendered list and the toggle's checked and disabled state are
\* written by the fetch cycle, by the page script at load, which restores
\* the stored checked state before the first listing, and by the user's
\* click on the checkbox; send, loadModels and the Retrieval Display leave
\* both unchanged.
C29_StateOwnership ==
    [][/\ (ragList' # ragList \/ toggle' # toggle)
          => \/ FetchCycle
             \/ ragToggleChange
             \/ pageLoad
       /\ pageLoad
          => /\ ragList' = <<>>
             /\ \E m \in ToggleMarkup :
                   /\ toggle'.disabled = m.disabled
                   /\ toggle'.checked =
                         IF getStoredItem(store, storageOk, STORAGE_KEYS.ragEnabled) # Null
                         THEN getStoredItem(store, storageOk, STORAGE_KEYS.ragEnabled) = <<"1">>
                         ELSE m.checked
       /\ OthersAtWork => UNCHANGED <<ragList, toggle>>]_vars

\* a document is listed and retrieval is on, the model list has arrived, and
\* a send has been answered with passages now on display
C29_Witness ==
    /\ ragList = <<1>>
    /\ toggle = [checked |-> TRUE, disabled |-> FALSE]
    /\ modelNet = 0
    /\ chatNet = EmptyBag
    /\ Len(history) = 2
    /\ ~ragResults.hidden

---------------------------------------------------------------------------
(* Claims about the Retrieval Display, checked under SpecRender.           *)

\* the label begins with the 1-based index n
LabelHasIndex(label, n) ==
    /\ Len(label) >= 1 + Len(Str(n))
    /\ SubSeq(label, 1, 1 + Len(Str(n))) = <<"Utdrag ">> \o Str(n)

\* C30: renderRagResults(items) hides the results region for an empty or
\* absent sequence; otherwise it shows the region with exactly one entry per
\* item, in the given order, labeled with the indices from 1.  It replaces
\* what was rendered before: rendering b after anything leaves what
\* rendering b on a fresh page leaves, and rendering b once more changes
\* nothing.
C30_RenderReplaces ==
    [][\A b \in RenderInputs :
          renderRagResultsCall(b)
          => /\ ragResults'.hidden <=> (b = Null \/ b = <<>>)
             /\ Len(ragResults'.items) = (IF b = Null THEN 0 ELSE Len(b))
             /\ \A i \in 1..Len(ragResults'.items) :
                   /\ LabelHasIndex(ragResults'.items[i].label, i)
                   /\ ragResults'.items[i].text =
                         (IF Falsy(ItemText(b[i])) THEN <<>> ELSE ItemText(b[i]))
             /\ ragResults' = renderRagResults(b)
             /\ renderRagResultsOn(ragResults', b) = ragResults']_vars

\* three items are on display, in the order given, the third without text
C30_Witness ==
    /\ ~ragResults.hidden
    /\ Len(ragResults.items) = 3
    /\ ragResults.items[1] = [label |-> <<"Utdrag ", "1">>, text |-> <<"annat">>]
    /\ ragResults.items[2].text = <<"utdrag">>
    /\ LabelHasIndex(ragResults.items[2].label, 2)
    /\ ragResults.items[3].text = <<>>
    /\ LabelHasIndex(ragResults.items[3].label, 3)

---------------------------------------------------------------------------
(* Claims about the score annotation, checked under SpecScore.             *)

\* round(clamp(score, -1, 1) * 1000) / 10 for the finite scores of the items:
\* 0.8734, -1.5, 0.957, -2, 0.0005, -0.0005 and 0.3333
SimilarityPercent(item) ==
    CASE item = "p1"  -> <<"8", "7", ".", "3">>
      [] item = "p3"  -> <<"-", "1", "0", "0">>
      [] item = "p7"  -> <<"9", "5", ".", "7">>
      [] item = "p8"  -> <<"-", "1", "0", "0">>
      [] item = "p9"  -> <<"0", ".", "1">>
      [] item = "p10" -> <<"0">>
      [] item = "p11" -> <<"3", "3", ".", "3">>
      [] OTHER        -> <<>>

\* C31: an item is annotated with the similarity percentage
\* round(clamp(score, -1, 1) * 1000) / 10 when its score is a finite number,
\* and carries no annotation when the score is absent, NaN or an infinity.
C31_ScoreAnnotation ==
    [][\A b \in ScoreInputs :
          renderRagResultsCall(b)
          => \A i \in 1..Len(b) :
                ragResults'.items[i].label =
                   <<"Utdrag ">> \o Str(i)
                   \o (IF ItemScore(b[i]).t = "num"
                       THEN <<" * likhet ">> \o SimilarityPercent(b[i]) \o <<"%">>
                       ELSE <<>>)]_vars

\* the same, for the scores that are finite or no number at all
FiniteScoresAnnotated ==
    [][\A b \in ScoreInputs :
          renderRagResultsCall(b)
          => \A i \in 1..Len(b) :
                ItemScore(b[i]).t # "inf"
                => ragResults'.items[i].label =
                      <<"Utdrag ">> \o Str(i)
                      \o (IF ItemScore(b[i]).t = "num"
                          THEN <<" * likhet ">> \o SimilarityPercent(b[i]) \o <<"%">>
                          ELSE <<>>)]_vars

---------------------------------------------------------------------------
(* Claims about rendering a listing, checked under SpecRag.                *)

\* C32: re-rendering is idempotent.  When a listing response has been
\* applied, applying the identical response once more leaves the same
\* state: the list holds the documents of the response in server order,
\* each once, and the list, the status with its counts, the toggle and the
\* stored preference come out as they are.  The same holds for a failure.
C32_IdempotentRerender ==
    [][\A r \in BagToSet(ragNet) :
          /\ RendersListing(r)
             => /\ ragList' = r.docs
                /\ renderRagDocsList(ragList', r.docs) = ragList'
                /\ renderRagDocsToggle(r.docs, toggle', store', storageOk) = toggle'
                /\ renderRagDocsStore(r.docs, store', storageOk) = store'
                /\ fetchRagDocsStatus(r.ov, Len(r.docs), r.chunks) = ragStatus'
          /\ \A f \in Failures(r) :
                FailsListing(r, f)
                => /\ fetchRagDocsCatchList(ragList') = ragList'
                   /\ fetchRagDocsCatchToggle(toggle') = toggle'
                   /\ fetchRagDocsCatchStatus(f) = ragStatus']_vars

\* the knowledge base was cleared twice in a row and both re-lists, with the
\* same empty listing, have been rendered
C32_Witness ==
    /\ ragStatus = setRagStatus(<<"Kunskapsbasen tomdes.">>, "success")
    /\ ragList = <<>>
    /\ kb = <<>>
    /\ toggle = ToggleOff
    /\ BagCardinality(ragNet) = 0

\* C33: the status after a successful list.  A listing asked for by a
\* successful add, delete or clear-all shows that operation's success
\* message, with severity success, whatever the counts; the listing of the
\* page script shows the no-documents message for a count of 0 and
\* otherwise the document count paired with the chunk count of the response.
C33_StatusAfterList ==
    [][\A r \in BagToSet(ragNet) :
          RendersListing(r)
          => ragStatus' =
                CASE r.ov = "added"   -> [text |-> <<"Texten lades till i kunskapsbasen.">>,
                                          type |-> "success"]
                  [] r.ov = "deleted" -> [text |-> <<"Texten togs bort.">>, type |-> "success"]
                  [] r.ov = "cleared" -> [text |-> <<"Kunskapsbasen tomdes.">>,
                                          type |-> "success"]
                  [] OTHER ->
                     IF Len(r.docs) = 0
                     THEN [text |-> <<"Ingen text har lagts till annu.">>, type |-> "info"]
                     ELSE [text |-> <<"Texter: ">> \o Str(Len(r.docs)) \o <<" * ">>
                                    \o Str(r.chunks) \o <<" utdrag.">>,
                           type |-> "info"]]_vars

\* a text was added and the re-list rendered: the success message stands where
\* the count of one document would
C33_Witness ==
    /\ ragStatus = [text |-> <<"Texten lades till i kunskapsbasen.">>, type |-> "success"]
    /\ ragList = <<1>>
    /\ kb = <<1>>
    /\ BagCardinality(ragNet) = 0

---------------------------------------------------------------------------
(* Claims about the chat history, checked under SpecChat.                  *)

IsPrefix(a, b) == Len(a) <= Len(b) /\ SubSeq(b, 1, Len(a)) = a

\* the messages the step has appended
Appended == { history'[i] : i \in (Len(history) + 1)..Len(history') }

\* the step sends a chat request, or takes one out of flight
ChatSent == BagCardinality(chatNet') = BagCardinality(chatNet) + 1

ChatArrived == BagCardinality(chatNet') = BagCardinality(chatNet) - 1

---------------------------------------------------------------------------
(* Claims about the retrieval toggle and the stored preference, checked    *)
(* under SpecRag.                                                          *)

\* C35: while storage works, whenever #ragToggle is enabled and a value is
\* stored under the RAG-enabled key, the toggle is checked exactly if that
\* value is "1", whatever the interleaving of the user's toggle changes,
\* rendered listings and failed listings.
C35_ToggleMatchesStore ==
    (/\ storageOk
     /\ ~toggle.disabled
     /\ store[STORAGE_KEYS.ragEnabled] # Null)
    => (toggle.checked = (store[STORAGE_KEYS.ragEnabled] = <<"1">>))

\* a listing with a document is rendered, the toggle is enabled and off, as
\* the "0" in storage has it, and another listing is on its way
C35_Witness ==
    /\ storageOk
    /\ ragList # <<>>
    /\ toggle = [checked |-> FALSE, disabled |-> FALSE]
    /\ store[STORAGE_KEYS.ragEnabled] = <<"0">>
    /\ ragNet # EmptyBag

---------------------------------------------------------------------------
(* The user's choice and an emptied knowledge base, checked under SpecKeep: *)
(* the user has switched retrieval on, which stored "1"; the page is loaded *)
(* over a knowledge base that is empty or holds a document, and from then   *)
(* on the user only adds, removes and clears documents; the toggle is not   *)
(* clicked again.                                                           *)

InitKeep ==
    /\ storageOk = TRUE
    /\ \E docs \in {<<>>, <<1>>} : RagLoading(docs, Storage(Null, <<"1">>, Null))
    /\ ModelsIdle
    /\ ChatIdle
    /\ topKInput = TopKMarkup

NextKeep ==
    \/ \E r \in BagToSet(ragNet) : ServerList(r)
    \/ \E r \in BagToSet(ragNet) : \E resp \in ListAnswers(r) : fetchRagDocsResume(r, resp)
    \/ \E r \in BagToSet(ragNet) : addRagDocResume(r)
    \/ \E r \in BagToSet(ragNet) : deleteRagDocResume(r)
    \/ \E r \in BagToSet(ragNet) : clearRagDocsResume(r)
    \/ \E text \in RagTexts : addRagDoc(text)
    \/ \E id \in 0..MaxDocs : deleteRagDoc(id)
    \/ \E c \in BOOLEAN : clearRagDocs(c)

SpecKeep == InitKeep /\ [][NextKeep]_vars

\* C36 as stated: the user's choice survives the knowledge base becoming
\* empty for a while: every rendered listing with a document leaves the
\* toggle enabled and checked, also after a listing without documents.
C36_ChoiceSurvivesOriginal ==
    [][\A r \in BagToSet(ragNet) :
          (RendersListing(r) /\ Len(r.docs) > 0)
          => toggle' = [checked |-> TRUE, disabled |-> FALSE]]_vars

\* C36: the user's choice survives failed listings, not an emptied
\* knowledge base.  A rendered listing with a document enables the toggle
\* and checks it exactly if "1" is stored; a failed listing stores nothing;
\* a rendered listing without documents stores "0", and from then on the
\* toggle stays unchecked until the user switches it on again.
C36_ChoiceSurvives ==
    [][/\ \A r \in BagToSet(ragNet) :
             /\ (RendersListing(r) /\ Len(r.docs) > 0)
                => /\ toggle' = [checked |-> store[STORAGE_KEYS.ragEnabled] = <<"1">>,
                                 disabled |-> FALSE]
                   /\ store' = store
             /\ (RendersListing(r) /\ Len(r.docs) = 0)
                => store'[STORAGE_KEYS.ragEnabled] = <<"0">>
             /\ \A f \in ListAnswers(r) : FailsListing(r, f) => store' = store
       /\ store[STORAGE_KEYS.ragEnabled] = <<"0">>
          => /\ store'[STORAGE_KEYS.ragEnabled] = <<"0">>
             /\ ~toggle'.checked]_vars

\* the knowledge base was emptied and filled again: the listing shows a
\* document and the toggle is enabled, but off, with "0" stored
C36_Witness ==
    /\ ragList # <<>>
    /\ toggle = [checked |-> FALSE, disabled |-> FALSE]
    /\ store[STORAGE_KEYS.ragEnabled] = <<"0">>

---------------------------------------------------------------------------
(* Retrieval asked for by a chat request, checked under SpecUse: the chat   *)
(* page has just been loaded with retrieval stored as switched on, the      *)
(* first listing is on its way, and the user chats, switches retrieval and  *)
(* adds and removes documents; the backend answers the chat requests.       *)

InitUse ==
    /\ storageOk = TRUE
    /\ \E docs \in {<<>>, <<1>>} : RagLoading(docs, Storage(Null, <<"1">>, Null))
    /\ ModelsIdle
    /\ ChatIdle
    /\ topKInput = TopKMarkup

NextUse ==
    \/ \E r \in BagToSet(ragNet) : ServerList(r)
    \/ \E r \in BagToSet(ragNet) : \E resp \in ListAnswers(r) : fetchRagDocsResume(r, resp)
    \/ \E r \in BagToSet(ragNet) : addRagDocResume(r)
    \/ \E r \in BagToSet(ragNet) : deleteRagDocResume(r)
    \/ \E text \in RagTexts : addRagDoc(text)
    \/ \E id \in 0..MaxDocs : deleteRagDoc(id)
    \/ ragToggleChange
    \/ \E text \in ChatTexts : sendClick(text)
    \/ \E r \in BagToSet(chatNet) : \E resp \in {x \in ChatAnswers(r) : x.st = "ok"} :
          sendPromptResume(r, resp)

SpecUse == InitUse /\ [][NextUse]_vars

\* C37 as stated: a chat request carries use_rag = true only if the listing
\* applied last since the page was loaded was successful and had a document,
\* which is when the rendered list is not empty; no request sent before the
\* first listing has completed carries use_rag = true.
C37_UseRagNeedsListingOriginal ==
    [][\A q \in Issued : q.useRag => ragList # <<>>]_vars

\* C37: a chat request carries use_rag = true only if the toggle is enabled
\* and checked when it is sent.  Once a listing has been applied since the
\* page was loaded, the toggle is enabled only while the listing applied
\* last was successful and had a document; before that the toggle is as the
\* page's markup and the stored preference have it, and a request sent then
\* carries use_rag = true if that leaves it enabled and checked.
C37_UseRagNeedsListing ==
    [][/\ \A q \in Issued : q.useRag = (~toggle.disabled /\ toggle.checked)
       /\ ~toggle.disabled
          => \/ ragList # <<>>
             \/ FirstListingPending
       /\ \A r \in BagToSet(ragNet) :
             /\ (RendersListing(r) /\ Len(r.docs) = 0) => toggle'.disabled
             /\ \A f \in ListAnswers(r) : FailsListing(r, f) => toggle'.disabled]_vars

\* a request asking for retrieval is in flight, sent before any listing
\* was applied: the list is empty and the first listing still on its way
C37_Witness ==
    /\ \E q \in BagToSet(chatNet) : q.useRag
    /\ ragList = <<>>
    /\ FirstListingPending
    /\ ~toggle.disabled

---------------------------------------------------------------------------
(* Claims about the retrieval display under overlapping sends, checked     *)
(* under SpecChat.                                                         *)

\* the retrieval context the answer resp carries
ContextOf(resp) == IF resp.st = "ok" /\ resp.ctx # Null THEN resp.ctx ELSE <<>>

\* when the step processes an answer, the display it leaves is hidden or
\* shows exactly that answer's context; any other step that changes the
\* display hides it
DisplayFollows ==
    /\ \A r \in BagToSet(chatNet) : \A resp \in ChatAnswers(r) :
          (sendPromptResume(r, resp) /\ ~ragResults'.hidden)
          => ragResults' = renderRagResults(ContextOf(resp))
    /\ ~ChatArrived => (ragResults' = ragResults \/ ragResults'.hidden)

\* C38: under any interleaving of overlapping sends and chat responses
\* arriving in any order, the retrieval-results region, whenever it is
\* visible, shows exactly the retrieval context of the chat response
\* processed last: a processed response leaves on display its own context
\* or nothing, and nothing else puts items on display.
C38_DisplayOfLastResponse == [][DisplayFollows]_vars

\* the same while the speech hook does not throw
DisplayOfLastResponseUnlessHookThrows ==
    [][(~ttsToggle \/ speech # "throws") => DisplayFollows]_vars

---------------------------------------------------------------------------
(* The model a chat request names, checked under SpecPick: a model          *)
(* preference is stored, the page's first model load is under way, and the  *)
(* user chats, picks models and refreshes the model list.                   *)

InitPick ==
    /\ storageOk = TRUE
    /\ RagSettled(<<>>, Storage(OtherModel, Null, Null))
    /\ sel = ClearedSelect
    /\ modelNet = 1
    /\ ChatIdle
    /\ topKInput = TopKMarkup

NextPick ==
    \/ fetchModels
    \/ \E resp \in ModelAnswers : fetchModelsResume(resp)
    \/ \E i \in 1..MaxOptions : modelChange(i)
    \/ \E text \in ChatTexts : sendClick(text)
    \/ \E r \in BagToSet(chatNet) : \E resp \in ChatAnswers(r) : sendPromptResume(r, resp)

SpecPick == InitPick /\ [][NextPick]_vars

---------------------------------------------------------------------------
(* Press-and-hold recording, checked under SpecMic: the chat page at rest, *)
(* the user pressing and releasing #micBtn by mouse or touch, the          *)
(* microphone permission and the transcriptions settling in any order.     *)

InitMic ==
    /\ storageOk = TRUE
    /\ RagSettled(<<>>, Storage(Null, Null, Null))
    /\ ModelsIdle
    /\ ChatIdle
    /\ topKInput = TopKMarkup

NextMic ==
    \/ startRecording
    \/ \E granted \in BOOLEAN : startRecordingResume(granted)
    \/ micMouseup
    \/ micMouseleave
    \/ \E i \in 1..MaxPress : sendAudioForTranscription(i)
    \/ \E resp \in TranscribeAnswers : sendAudioForTranscriptionResume(resp)

SpecMic == InitMic /\ [][NextMic]_vars

NoneRecording == \A i \in DOMAIN mic.recorders : mic.recorders[i] # "recording"

\* C40: press-and-hold recording. Once #micBtn has been pressed and released
\* and the microphone permission request started by the press has completed,
\* the recorder is stopped and the recording flag is false, whichever of the
\* release and the completion came first.
C40_ReleaseStopsRecorder ==
    (~mic.pressed /\ mic.pending = 0) => (~mic.recording /\ NoneRecording)

\* the same for a button held until the permission request has completed: a
\* release with no request pending and no recorder left behind by an earlier
\* press stops the recorder
HeldUntilGrantedStops ==
    [][(/\ mic.pressed /\ ~mic'.pressed
        /\ mic.pending = 0
        /\ \A i \in DOMAIN mic.recorders : i < Len(mic.recorders) => mic.recorders[i] # "recording")
       => (~mic'.recording /\ \A i \in DOMAIN mic'.recorders : mic'.recorders[i] # "recording")]_vars

====
